---- MODULE Spec2Model ----
(***************************************************************************)
(* A model of the UselessBoxes firmware: the settings-button classifier,   *)
(* the active-claim arbitration between two paired boxes, and the motor    *)
(* direction decision.                                                     *)
(*                                                                         *)
(* The repository holds two revisions of the firmware:                     *)
(*   "latest"    src/PlatformIO/src/Useless_Boxes.cpp                      *)
(*   "softstart" src/unnamed/part_000 (soft-start motor control, feedback  *)
(*               applied in onActiveBoxChange)                             *)
(* The variable rev selects the revision a behaviour runs; where the two   *)
(* differ, each handler has one definition per revision.                   *)
(*                                                                         *)
(* Time: the code reads every timestamp T only as millis() - T, compared   *)
(* with a constant.  The model keeps that difference ("sinceT"), saturated *)
(* just above the largest constant it is compared with; unsigned           *)
(* subtraction makes the difference independent of the wrap of millis().   *)
(***************************************************************************)
EXTENDS Integers, Sequences, FiniteSets, TLC

VARIABLES
    rev,                      \* the firmware revision that runs
    box,                      \* one box: its firmware state and its pins
    ev,                       \* what the last step of the box did (history)
    \* ---- the settings button (handleSettingsButton) ----
    buttonPin,                \* raw level of BUTTON_PIN
    settingsButtonState,      \* debounced level
    lastSettingsButtonState,  \* raw level at the previous call
    sinceLastDebounceTime,    \* millis() - lastDebounceTime
    sincePressedTime,         \* millis() - pressedTime
    longPressActive,
    shortPressCount,
    longPressCount,
    press,                    \* history: the press in progress
    \* ---- two paired boxes and the shared claim slot ----
    boxes,                    \* [Boxes -> box record]
    cloud,                    \* the shared register active_box
    toBox,                    \* [Boxes -> writes of the peer on their way to that box]
    driven                    \* history: [Boxes -> "delivered" once the peer's claim
                              \* arrived while the switch was on, "handled" once
                              \* handleSwitchDetection ran after that, "no" again
                              \* when the box's own switch moves]

boxVars    == <<box, ev>>
buttonVars == <<buttonPin, settingsButtonState, lastSettingsButtonState,
                sinceLastDebounceTime, sincePressedTime, longPressActive,
                shortPressCount, longPressCount, press>>
pairVars   == <<boxes, cloud, toBox, driven>>
vars       == <<rev, boxVars, buttonVars, pairVars>>

\* ------------------------------------------------------------------
\* Constants of the program
\* ------------------------------------------------------------------
LOW  == FALSE
HIGH == TRUE

Revisions == {"latest", "softstart"}

\* enum RGBMode
RGB_OFF         == 0
RGB_WHITE       == 1
RGB_RAINBOW     == 2
RGB_BREATHING   == 3
RGB_SOLID_RED   == 4
RGB_SOLID_GREEN == 5
RGB_SOLID_BLUE  == 6
RGB_MODE_COUNT  == 7

\* enum BuzzerPattern
BUZZER_OFF           == 0
BUZZER_SINGLE        == 1
BUZZER_CHIRP         == 2
BUZZER_LOOP          == 3
BUZZER_SOS           == 4
BUZZER_PATTERN_COUNT == 5

DEFAULT_LONG_PRESS_TIME   == 1000
DEFAULT_DEBOUNCE_TIME     == 50
MOTOR_SOFT_START_DURATION == 150
DEFAULT_RGB_BRIGHTNESS_PERCENTAGE == 100
DEFAULT_BUZZER_VOLUME_PERCENTAGE == 100
BUZZER_INTERVAL      == 250
BUZZER_DEMO_DURATION == 5000

\* Runtime settings, initialised from the defaults and changed by no code path.
LONG_PRESS_TIME == DEFAULT_LONG_PRESS_TIME
DEBOUNCE_TIME   == DEFAULT_DEBOUNCE_TIME

\* BOX_NAME of the two boards, and the neutral identity
MICHAEL == "MICHAEL"
TREVOR  == "TREVOR"
NONE    == "NONE"
Boxes   == {MICHAEL, TREVOR}
Peer(name) == IF name = MICHAEL THEN TREVOR ELSE MICHAEL

\* Motor directions (motorDirection / lastMotorDirection)
FORWARD == 1
REVERSE == -1
STOPPED == 0

\* ------------------------------------------------------------------
\* Arithmetic helpers
\* ------------------------------------------------------------------
Min(a, b) == IF a < b THEN a ELSE b

\* C integer division truncates toward zero (d > 0)
CDiv(a, d) == IF a >= 0 THEN a \div d ELSE -((-a) \div d)

\* conversion to uint8_t
U8(x) == x % 256

\* ------------------------------------------------------------------
\* RGB LED
\* ------------------------------------------------------------------
\* setRGB: brightness scaling, then common-anode inversion; rgbOut holds
\* the three values written with analogWrite.
setRGB(b, r, g, bl) ==
    LET s(x) == U8(CDiv(x * b.rgb_brightness_percentage, 100))
    IN  [b EXCEPT !.rgbOut = <<255 - s(r), 255 - s(g), 255 - s(bl)>>]

applyRGBMode(b) ==
    CASE b.currentRGBMode = RGB_OFF         -> setRGB(b, 0, 0, 0)
      [] b.currentRGBMode = RGB_WHITE       -> setRGB(b, 255, 255, 255)
      [] b.currentRGBMode = RGB_SOLID_RED   -> setRGB(b, 255, 0, 0)
      [] b.currentRGBMode = RGB_SOLID_GREEN -> setRGB(b, 0, 255, 0)
      [] b.currentRGBMode = RGB_SOLID_BLUE  -> setRGB(b, 0, 0, 255)
      [] OTHER                              -> b   \* animated, or no case

RGB_UPDATE_INTERVAL == 20

\* Faulty variant: the breathing step does not divide the range.
updateAnimations_step3(b) ==
    IF b.currentRGBMode = RGB_BREATHING /\ b.sinceRGBAnimation > RGB_UPDATE_INTERVAL
    THEN LET v == b.breathValue + b.breathDir * 3
             d == IF v <= 5 THEN 1 ELSE IF v >= 250 THEN 0 - 1 ELSE b.breathDir
         IN  setRGB([b EXCEPT !.sinceRGBAnimation = 0,
                              !.breathValue = v, !.breathDir = d], v, v, v)
    ELSE b

\* updateAnimations, the Breathing frame (the Rainbow frame is not followed:
\* the specifications that call this never select RGB_RAINBOW).  setRGB
\* takes uint8_t arguments.
updateAnimations(b) ==
    IF b.currentRGBMode = RGB_BREATHING /\ b.sinceRGBAnimation > RGB_UPDATE_INTERVAL
    THEN LET v == b.breathValue + b.breathDir * 2
             d == IF v <= 5 THEN 1 ELSE IF v >= 250 THEN 0 - 1 ELSE b.breathDir
         IN  setRGB([b EXCEPT !.sinceRGBAnimation = 0,
                              !.breathValue = v, !.breathDir = d],
                    U8(v), U8(v), U8(v))
    ELSE b

updateRGBModeFromBoxState(b) ==
    applyRGBMode([b EXCEPT !.currentRGBMode =
                     IF b.active_box = b.name THEN b.activeRGBSetting
                                              ELSE b.inactiveRGBSetting])

\* ------------------------------------------------------------------
\* Buzzer
\* ------------------------------------------------------------------
\* The buzzer output is tone: the frequency that sounds (0: silent), and
\* toneLeft: the time left of a tone started with a duration (0: no limit).
tone(b, freq, duration) == [b EXCEPT !.tone = freq, !.toneLeft = duration]

noTone(b) == [b EXCEPT !.tone = 0, !.toneLeft = 0]

\* triggerBuzzerPattern; trig is history: the patterns triggered during
\* the current handler call, in order; sinceTrigger is history: the time
\* since the last trigger, where a specification follows it.
triggerBuzzerPattern(b, pattern) ==
    noTone([b EXCEPT !.currentBuzzerPattern = pattern,
                     !.buzzerStep = 0,
                     !.buzzerState = FALSE,
                     !.sinceBuzzerLast = 0,
                     !.trig = Append(@, pattern),
                     !.sinceTrigger = 0])

\* Faulty variant: the demo does not restart its clock.
demoBuzzerPattern_clockKept(b, pattern) ==
    triggerBuzzerPattern([b EXCEPT !.buzzerDemo = TRUE], pattern)

\* demoBuzzerPattern (revision "latest")
demoBuzzerPattern(b, pattern) ==
    triggerBuzzerPattern([b EXCEPT !.buzzerDemo = TRUE,
                                   !.sinceBuzzerDemoStart = 0], pattern)

chirpFreqs == <<800, 1200, 800>>

\* sosDurations and the frequency of the SOS tones, by revision
sosDurations_latest    == <<0, 150, 150, 150, 450, 450, 450, 150, 150, 150>>
sosDurations_softstart == <<0, 150, 150, 150, 400, 400, 400, 150, 150, 150>>
sosDurations == IF rev = "latest" THEN sosDurations_latest ELSE sosDurations_softstart
sosFreq      == IF rev = "latest" THEN 900 ELSE 800

\* The switch of updateBuzzerAlarm; arrays are indexed from 1 here.
\* Faulty variant: the Chirp tones follow each other without the pause of 50.
playBuzzerPattern_chirpNoGap(b) ==
    LET step == b.buzzerStep
        last == b.sinceBuzzerLast
        off  == [b EXCEPT !.currentBuzzerPattern = BUZZER_OFF, !.buzzerStep = 0]
        adv  == [b EXCEPT !.sinceBuzzerLast = 0, !.buzzerStep = step + 1]
    IN  CASE b.currentBuzzerPattern = BUZZER_OFF -> noTone(b)
          [] b.currentBuzzerPattern = BUZZER_SINGLE ->
                IF step = 0 THEN tone(adv, 1000, 0)
                ELSE IF last >= 120 THEN noTone(off)
                ELSE b
          [] b.currentBuzzerPattern = BUZZER_CHIRP ->
                IF step < 3
                THEN IF last >= 120 \/ step = 0
                     THEN tone(adv, chirpFreqs[step + 1], 0)
                     ELSE b
                ELSE IF last >= 120 THEN noTone(off)
                ELSE b
          [] b.currentBuzzerPattern = BUZZER_LOOP ->
                IF last >= BUZZER_INTERVAL
                THEN LET c == [b EXCEPT !.sinceBuzzerLast = 0,
                                        !.buzzerState = ~b.buzzerState]
                     IN  IF c.buzzerState THEN tone(c, 1000, 0) ELSE noTone(c)
                ELSE b
          [] b.currentBuzzerPattern = BUZZER_SOS ->
                IF step < 10
                THEN IF last >= sosDurations[step + 1] + 150
                     THEN tone(adv, sosFreq, sosDurations[step + 1])
                     ELSE b
                ELSE IF last >= 150 THEN off
                ELSE b
          [] OTHER -> b

playBuzzerPattern(b) ==
    LET step == b.buzzerStep
        last == b.sinceBuzzerLast
        off  == [b EXCEPT !.currentBuzzerPattern = BUZZER_OFF, !.buzzerStep = 0]
        adv  == [b EXCEPT !.sinceBuzzerLast = 0, !.buzzerStep = step + 1]
    IN  CASE b.currentBuzzerPattern = BUZZER_OFF -> noTone(b)
          [] b.currentBuzzerPattern = BUZZER_SINGLE ->
                IF step = 0 THEN tone(adv, 1000, 0)
                ELSE IF last >= 120 THEN noTone(off)
                ELSE b
          [] b.currentBuzzerPattern = BUZZER_CHIRP ->
                IF step < 3
                THEN IF last >= 120 + 50 \/ step = 0
                     THEN tone(adv, chirpFreqs[step + 1], 0)
                     ELSE b
                ELSE IF last >= 120 THEN noTone(off)
                ELSE b
          [] b.currentBuzzerPattern = BUZZER_LOOP ->
                IF last >= BUZZER_INTERVAL
                THEN LET c == [b EXCEPT !.sinceBuzzerLast = 0,
                                        !.buzzerState = ~b.buzzerState]
                     IN  IF c.buzzerState THEN tone(c, 1000, 0) ELSE noTone(c)
                ELSE b
          [] b.currentBuzzerPattern = BUZZER_SOS ->
                IF step < 10
                THEN IF last >= sosDurations[step + 1] + 150
                     THEN tone(adv, sosFreq, sosDurations[step + 1])
                     ELSE b
                ELSE IF last >= 150 THEN off
                ELSE b
          [] OTHER -> b

updateBuzzerAlarm_latest(b) ==
    IF b.sinceBuzzerDemoStart >= BUZZER_DEMO_DURATION /\ b.buzzerDemo
    THEN noTone([b EXCEPT !.buzzerDemo = FALSE,
                          !.currentBuzzerPattern = BUZZER_OFF,
                          !.buzzerStep = 0])
    ELSE playBuzzerPattern(b)

updateBuzzerAlarm_softstart(b) == playBuzzerPattern(b)

updateBuzzerAlarm(b) ==
    IF rev = "latest" THEN updateBuzzerAlarm_latest(b)
                      ELSE updateBuzzerAlarm_softstart(b)

\* The largest time the buzzer clocks are compared with
BuzzerLastCap == 450 + 150

\* Time dt passes for the buzzer: millis() - buzzerLast and
\* millis() - buzzerDemoStart grow, a tone with a duration runs out.
elapseBuzzer(b, dt) ==
    LET c == [b EXCEPT !.sinceBuzzerLast = Min(@ + dt, BuzzerLastCap),
                       !.sinceBuzzerDemoStart = Min(@ + dt, BUZZER_DEMO_DURATION)]
    IN  IF c.tone # 0 /\ c.toneLeft > 0
        THEN IF c.toneLeft > dt THEN [c EXCEPT !.toneLeft = @ - dt] ELSE noTone(c)
        ELSE c

\* Time dt passes for the motor: millis() - motorStartTime grows.
elapseMotor(b, dt) ==
    [b EXCEPT !.sinceMotorStartTime = Min(@ + dt, MOTOR_SOFT_START_DURATION)]

\* ------------------------------------------------------------------
\* Active box
\* ------------------------------------------------------------------
setActiveBox(b, id) == [b EXCEPT !.active_box = id]

\* ------------------------------------------------------------------
\* Motor speed mapping (revision "softstart")
\* ------------------------------------------------------------------
\* Faulty variant: the linear part starts again from 0 above 20.
calculateEffectiveSpeed_noOffset(speedPercent, isStarting) ==
    IF speedPercent <= 0 THEN 0
    ELSE IF isStarting THEN 100
    ELSE IF speedPercent > 100 THEN 100
    ELSE IF speedPercent <= 20 THEN speedPercent \div 10
    ELSE ((speedPercent - 20) * 98) \div 80

\* Faulty variant: the startup phase is ignored.
calculateEffectiveSpeed_noBoost(speedPercent, isStarting) ==
    IF speedPercent <= 0 THEN 0
    ELSE IF speedPercent > 100 THEN 100
    ELSE IF speedPercent <= 20 THEN speedPercent \div 10
    ELSE 2 + ((speedPercent - 20) * 98) \div 80

calculateEffectiveSpeed(speedPercent, isStarting) ==
    IF speedPercent <= 0 THEN 0
    ELSE IF isStarting THEN 100
    ELSE IF speedPercent > 100 THEN 100
    ELSE IF speedPercent <= 20 THEN speedPercent \div 10
    ELSE 2 + ((speedPercent - 20) * 98) \div 80

\* ------------------------------------------------------------------
\* Motor on-time (revision "latest"): single-precision float arithmetic
\* ------------------------------------------------------------------
MOTOR_PWM_CYCLE_TIME == 10

\* part_000: "Run motor control every 50 ms"
MOTOR_UPDATE_INTERVAL == 50

\* part_000: "Update software PWM frequently (5ms intervals)"
MOTOR_PWM_UPDATE_INTERVAL == 5

\* part_000: "With 5000ms period"
MOTOR_PWM_PERIOD == 5000

\* A positive float is [m, k], the value m / 2^k with a 24-bit m.
F32_MANT == 8388608

RECURSIVE Pow2(_)
Pow2(n) == IF n = 0 THEN 1 ELSE 2 * Pow2(n - 1)

\* Round to nearest, ties to even
roundNearestEven(n, d) ==
    LET q == n \div d
        r == n % d
    IN  IF 2 * r > d \/ (2 * r = d /\ q % 2 = 1) THEN q + 1 ELSE q

RECURSIVE f32ScaleUp(_, _, _)
f32ScaleUp(n, d, k) ==
    IF n >= d * F32_MANT THEN [n |-> n, k |-> k] ELSE f32ScaleUp(2 * n, d, k + 1)

\* (float)n / (float)d for 0 < n <= d <= 100
f32Div(n, d) ==
    LET t == f32ScaleUp(n, d, 0)
    IN  [m |-> roundNearestEven(t.n, d), k |-> t.k]

RECURSIVE f32Bits(_, _)
f32Bits(p, sh) == IF p < 2 * F32_MANT * Pow2(sh) THEN sh ELSE f32Bits(p, sh + 1)

\* f * (float)c for a small integer c
f32Mul(f, c) ==
    LET p  == f.m * c
        sh == f32Bits(p, 0)
    IN  [m |-> roundNearestEven(p, Pow2(sh)), k |-> f.k - sh]

\* (unsigned long)f
f32ToULong(f) == f.m \div Pow2(f.k)

\* (unsigned long)((float)motorSpeed / 100.0f * MOTOR_PWM_CYCLE_TIME)
onTime_latest(motorSpeed) ==
    IF motorSpeed <= 0 THEN 0
    ELSE f32ToULong(f32Mul(f32Div(motorSpeed, 100), MOTOR_PWM_CYCLE_TIME))

\* The duty (percent of the cycle) a configured speed is mapped to when no
\* soft-start is in progress
dutyPercent(b) ==
    IF rev = "latest"
    THEN (onTime_latest(b.motorSpeed) * 100) \div MOTOR_PWM_CYCLE_TIME
    ELSE calculateEffectiveSpeed(b.motorSpeed, FALSE)

\* ------------------------------------------------------------------
\* Motor direction decision
\* ------------------------------------------------------------------
\* recomp is history: the number of modifyMotorState calls made during the
\* current handler call.
\* Faulty variant: the limit switch read with the wrong polarity.
modifyMotorState_limitInverted(b, switchState, limitState) ==
    LET c == [b EXCEPT !.recomp = @ + 1]
    IN  IF switchState = HIGH /\ c.active_box # c.name
        THEN [c EXCEPT !.motorDirection = FORWARD, !.motorShouldRun = TRUE,
                       !.motorPWMEnabled = FALSE, !.IN1 = HIGH, !.IN2 = LOW]
        ELSE IF limitState = HIGH
        THEN [c EXCEPT !.motorDirection = REVERSE, !.motorShouldRun = TRUE,
                       !.motorPWMEnabled = FALSE, !.IN1 = LOW, !.IN2 = HIGH]
        ELSE [c EXCEPT !.motorShouldRun = FALSE, !.motorDirection = STOPPED]

modifyMotorState_latest(b, switchState, limitState) ==
    LET c == [b EXCEPT !.recomp = @ + 1]
    IN  IF switchState = HIGH /\ c.active_box # c.name
        THEN [c EXCEPT !.motorDirection = FORWARD, !.motorShouldRun = TRUE,
                       !.motorPWMEnabled = FALSE, !.IN1 = HIGH, !.IN2 = LOW]
        ELSE IF limitState = LOW
        THEN [c EXCEPT !.motorDirection = REVERSE, !.motorShouldRun = TRUE,
                       !.motorPWMEnabled = FALSE, !.IN1 = LOW, !.IN2 = HIGH]
        ELSE [c EXCEPT !.motorShouldRun = FALSE, !.motorDirection = STOPPED]

\* Faulty variant: a change of direction does not begin a soft-start.
modifyMotorState_noSoftStart(b, switchState, limitState) ==
    LET c   == [b EXCEPT !.recomp = @ + 1]
        fwd == switchState = HIGH /\ c.active_box # c.name
        bwd == ~fwd /\ limitState = LOW
        currentDirection == IF fwd THEN FORWARD ELSE IF bwd THEN REVERSE ELSE STOPPED
        c1 == IF fwd THEN [c EXCEPT !.motor_forward = TRUE, !.IN1 = HIGH, !.IN2 = LOW]
              ELSE IF bwd THEN [c EXCEPT !.motor_forward = FALSE, !.IN1 = LOW, !.IN2 = HIGH]
              ELSE [c EXCEPT !.motor_forward = FALSE, !.IN1 = LOW, !.IN2 = LOW,
                             !.motorIsStarting = FALSE,
                             !.sinceMotorStartTime = MOTOR_SOFT_START_DURATION]
        c5 == [c1 EXCEPT !.lastMotorDirection = currentDirection,
                         !.motorShouldRunPWM = (c1.motor_enabled /\ (fwd \/ bwd)),
                         \* pwmCycleStart = millis()
                         !.cyclePosition = 0,
                         !.pwmEnableState = FALSE]
    IN  IF ~c5.motorShouldRunPWM THEN [c5 EXCEPT !.EN1 = LOW] ELSE c5

\* Faulty variant: a stop decision leaves a soft-start in progress.
modifyMotorState_stopKeepsStart(b, switchState, limitState) ==
    LET c   == [b EXCEPT !.recomp = @ + 1]
        fwd == switchState = HIGH /\ c.active_box # c.name
        bwd == ~fwd /\ limitState = LOW
        currentDirection == IF fwd THEN FORWARD ELSE IF bwd THEN REVERSE ELSE STOPPED
        motorShouldRun   == fwd \/ bwd
        \* the three branches
        c1 == IF fwd THEN [c EXCEPT !.motor_forward = TRUE, !.IN1 = HIGH, !.IN2 = LOW]
              ELSE IF bwd THEN [c EXCEPT !.motor_forward = FALSE, !.IN1 = LOW, !.IN2 = HIGH]
              ELSE [c EXCEPT !.motor_forward = FALSE, !.IN1 = LOW, !.IN2 = LOW]
        \* direction changed: begin soft-start
        c2 == IF motorShouldRun /\ currentDirection # 0
                 /\ currentDirection # c1.lastMotorDirection
              THEN [c1 EXCEPT !.motorIsStarting = TRUE, !.sinceMotorStartTime = 0]
              ELSE c1
        c3 == [c2 EXCEPT !.lastMotorDirection = currentDirection]
        \* soft-start completed
        c4 == IF c3.motorIsStarting
                 /\ c3.sinceMotorStartTime >= MOTOR_SOFT_START_DURATION
              THEN [c3 EXCEPT !.motorIsStarting = FALSE]
              ELSE c3
        c5 == [c4 EXCEPT !.motorShouldRunPWM = (c4.motor_enabled /\ motorShouldRun),
                         \* pwmCycleStart = millis()
                         !.cyclePosition = 0,
                         !.pwmEnableState = FALSE]
    IN  IF ~c5.motorShouldRunPWM THEN [c5 EXCEPT !.EN1 = LOW] ELSE c5

modifyMotorState_softstart(b, switchState, limitState) ==
    LET c   == [b EXCEPT !.recomp = @ + 1]
        fwd == switchState = HIGH /\ c.active_box # c.name
        bwd == ~fwd /\ limitState = LOW
        currentDirection == IF fwd THEN FORWARD ELSE IF bwd THEN REVERSE ELSE STOPPED
        motorShouldRun   == fwd \/ bwd
        \* the three branches
        c1 == IF fwd THEN [c EXCEPT !.motor_forward = TRUE, !.IN1 = HIGH, !.IN2 = LOW]
              ELSE IF bwd THEN [c EXCEPT !.motor_forward = FALSE, !.IN1 = LOW, !.IN2 = HIGH]
              ELSE [c EXCEPT !.motor_forward = FALSE, !.IN1 = LOW, !.IN2 = LOW,
                             !.motorIsStarting = FALSE,
                             \* motorStartTime = 0: millis() - 0 is past the window
                             !.sinceMotorStartTime = MOTOR_SOFT_START_DURATION]
        \* direction changed: begin soft-start
        c2 == IF motorShouldRun /\ currentDirection # 0
                 /\ currentDirection # c1.lastMotorDirection
              THEN [c1 EXCEPT !.motorIsStarting = TRUE, !.sinceMotorStartTime = 0]
              ELSE c1
        c3 == [c2 EXCEPT !.lastMotorDirection = currentDirection]
        \* soft-start completed
        c4 == IF c3.motorIsStarting
                 /\ c3.sinceMotorStartTime >= MOTOR_SOFT_START_DURATION
              THEN [c3 EXCEPT !.motorIsStarting = FALSE]
              ELSE c3
        c5 == [c4 EXCEPT !.motorShouldRunPWM = (c4.motor_enabled /\ motorShouldRun),
                         \* pwmCycleStart = millis()
                         !.cyclePosition = 0,
                         !.pwmEnableState = FALSE]
    IN  IF ~c5.motorShouldRunPWM THEN [c5 EXCEPT !.EN1 = LOW] ELSE c5

modifyMotorState(b, switchState, limitState) ==
    IF rev = "latest" THEN modifyMotorState_latest(b, switchState, limitState)
                      ELSE modifyMotorState_softstart(b, switchState, limitState)

\* The duty (percent) updateMotorPWM of revision "softstart" drives the
\* enable pin with
effectiveSpeed(b) ==
    IF ~b.motorShouldRunPWM \/ ~b.motor_enabled THEN 0
    ELSE calculateEffectiveSpeed(b.motorSpeed, b.motorIsStarting)

\* ------------------------------------------------------------------
\* Software PWM on the enable pin
\* ------------------------------------------------------------------
\* ran is history: whether the last call got past its interval test
updateMotorPWM_softstart(b) ==
    IF b.sincePWMUpdate < MOTOR_PWM_UPDATE_INTERVAL THEN b
    ELSE LET c  == [b EXCEPT !.sincePWMUpdate = 0]
             es == calculateEffectiveSpeed(c.motorSpeed, c.motorIsStarting)
             onTime == Min((MOTOR_PWM_PERIOD * es) \div 100, MOTOR_PWM_PERIOD)
             shouldBeHigh == c.cyclePosition < onTime
         IN  IF ~c.motorShouldRunPWM \/ ~c.motor_enabled
             THEN [c EXCEPT !.EN1 = LOW, !.pwmEnableState = FALSE]
             ELSE IF es <= 0
             THEN [c EXCEPT !.EN1 = LOW, !.pwmEnableState = FALSE]
             ELSE IF es >= 100
             THEN [c EXCEPT !.EN1 = HIGH, !.pwmEnableState = TRUE]
             ELSE IF shouldBeHigh # c.pwmEnableState
             THEN [c EXCEPT !.pwmEnableState = shouldBeHigh, !.EN1 = shouldBeHigh]
             ELSE c

\* Faulty variant: the off phase is as long as the whole cycle.
updateMotorPWM_fullOffPhase(b) ==
    LET onTime  == onTime_latest(b.motorSpeed)
        offTime == MOTOR_PWM_CYCLE_TIME
    IN  IF ~b.motorShouldRun
        THEN [b EXCEPT !.EN1 = LOW, !.motorPWMEnabled = FALSE]
        ELSE IF b.motorPWMEnabled
        THEN IF b.sinceMotorPWM >= onTime
             THEN [b EXCEPT !.EN1 = LOW, !.motorPWMEnabled = FALSE,
                            !.sinceMotorPWM = 0]
             ELSE b
        ELSE IF b.sinceMotorPWM >= offTime
             THEN [b EXCEPT !.EN1 = IF b.motorDirection \in {FORWARD, REVERSE}
                                    THEN HIGH ELSE @,
                            !.motorPWMEnabled = TRUE,
                            !.sinceMotorPWM = 0]
             ELSE b

updateMotorPWM_latest(b) ==
    LET onTime  == onTime_latest(b.motorSpeed)
        offTime == MOTOR_PWM_CYCLE_TIME - onTime
    IN  IF ~b.motorShouldRun
        THEN [b EXCEPT !.EN1 = LOW, !.motorPWMEnabled = FALSE]
        ELSE IF b.motorPWMEnabled
        THEN IF b.sinceMotorPWM >= onTime
             THEN [b EXCEPT !.EN1 = LOW, !.motorPWMEnabled = FALSE,
                            !.sinceMotorPWM = 0]
             ELSE b
        ELSE IF b.sinceMotorPWM >= offTime
             THEN [b EXCEPT !.EN1 = IF b.motorDirection \in {FORWARD, REVERSE}
                                    THEN HIGH ELSE @,
                            !.motorPWMEnabled = TRUE,
                            !.sinceMotorPWM = 0]
             ELSE b

\* The clocks of the motor code after dt
elapseLoop(b, dt) ==
    [b EXCEPT !.sinceMotorStartTime = Min(@ + dt, MOTOR_SOFT_START_DURATION),
              !.sinceMotorUpdate = Min(@ + dt, MOTOR_UPDATE_INTERVAL),
              !.sinceMotorPWM = IF rev = "latest"
                                THEN Min(@ + dt, MOTOR_PWM_CYCLE_TIME) ELSE @,
              !.sincePWMUpdate = IF rev = "latest" THEN @
                                 ELSE Min(@ + dt, MOTOR_PWM_UPDATE_INTERVAL),
              !.cyclePosition = IF rev = "latest" THEN @
                                ELSE (@ + dt) % MOTOR_PWM_PERIOD]

\* The direction last decided by modifyMotorState
Direction(b) == IF rev = "latest" THEN b.motorDirection ELSE b.lastMotorDirection

\* ------------------------------------------------------------------
\* Switch handler
\* ------------------------------------------------------------------
\* Faulty variant: the claim is taken without the LED change.
claimActive_noRGB(c) ==
    setActiveBox(triggerBuzzerPattern(c, c.activeBuzzerSetting), c.name)

\* Switch turned ON: claim active, active LED and buzzer
claimActive(c) ==
    setActiveBox(
        triggerBuzzerPattern(
            applyRGBMode([c EXCEPT !.currentRGBMode = c.activeRGBSetting]),
            c.activeBuzzerSetting),
        c.name)

\* Faulty variant: a box that does not hold the claim clears it.
nowInactive_clearsClaim(c) ==
    setActiveBox(
        triggerBuzzerPattern(
            applyRGBMode([c EXCEPT !.currentRGBMode = c.inactiveRGBSetting]),
            c.inactiveBuzzerSetting),
        NONE)

\* Switch turned OFF while another box (or none) is active
nowInactive(c) ==
    triggerBuzzerPattern(
        applyRGBMode([c EXCEPT !.currentRGBMode = c.inactiveRGBSetting]),
        c.inactiveBuzzerSetting)

\* Faulty variant: the release plays the inactive pattern.
releaseActive_withBuzzer(c) ==
    setActiveBox(
        triggerBuzzerPattern(
            applyRGBMode([c EXCEPT !.currentRGBMode = c.inactiveRGBSetting]),
            c.inactiveBuzzerSetting),
        NONE)

\* Switch turned OFF while this box is active: release, no buzzer
releaseActive(c) ==
    setActiveBox(applyRGBMode([c EXCEPT !.currentRGBMode = c.inactiveRGBSetting]),
                 NONE)

switchChanged_latest(c, switchState) ==
    IF switchState = HIGH THEN claimActive(c)
    ELSE IF c.active_box # c.name THEN nowInactive(c)
    ELSE releaseActive(c)

switchChanged_softstart(c, switchState) ==
    IF switchState = HIGH THEN claimActive(c)
    ELSE IF c.active_box = c.name THEN releaseActive(c)
    ELSE c

handleSwitchDetection(b) ==
    LET switchState == b.pinSwitch
        limitState  == b.pinLimit
        b1 == IF switchState # b.switch_forward
              THEN LET c == [b EXCEPT !.switch_forward = switchState,
                                      !.stateChanged = TRUE]
                   IN  IF rev = "latest" THEN switchChanged_latest(c, switchState)
                                         ELSE switchChanged_softstart(c, switchState)
              ELSE b
        b2 == IF limitState # b1.limit_pressed
              THEN [b1 EXCEPT !.limit_pressed = limitState, !.stateChanged = TRUE]
              ELSE b1
    IN  IF b2.stateChanged
        THEN [modifyMotorState(b2, switchState, limitState) EXCEPT !.stateChanged = FALSE]
        ELSE b2

\* ------------------------------------------------------------------
\* Remote update of active_box
\* ------------------------------------------------------------------
\* Faulty variant: the update does not request a recomputation.
onActiveBoxChange_noFlag(b) == b

\* Faulty variant: a box whose switch is on takes the claim back.
onActiveBoxChange_reclaim(b) ==
    [b EXCEPT !.stateChanged = TRUE,
              !.active_box = IF b.pinSwitch = HIGH THEN b.name ELSE @]

onActiveBoxChange_latest(b) == [b EXCEPT !.stateChanged = TRUE]

\* Faulty variant: LED and buzzer feedback only, no recomputation requested.
onActiveBoxChange_feedbackOnly(b) ==
    IF b.active_box = b.name
    THEN applyRGBMode([b EXCEPT !.currentRGBMode = b.activeRGBSetting])
    ELSE LET c == IF b.pinSwitch = HIGH
                  THEN triggerBuzzerPattern(b, b.inactiveBuzzerSetting)
                  ELSE b
         IN  applyRGBMode([c EXCEPT !.currentRGBMode = c.inactiveRGBSetting])

\* Faulty variant: the flag is set but the inactive pattern is not played.
onActiveBoxChange_noBuzzer(b) ==
    IF b.active_box = b.name
    THEN applyRGBMode([b EXCEPT !.currentRGBMode = b.activeRGBSetting])
    ELSE LET c == IF b.pinSwitch = HIGH
                  THEN [b EXCEPT !.stateChanged = TRUE]
                  ELSE b
         IN  applyRGBMode([c EXCEPT !.currentRGBMode = c.inactiveRGBSetting])

onActiveBoxChange_softstart(b) ==
    IF b.active_box = b.name
    THEN applyRGBMode([b EXCEPT !.currentRGBMode = b.activeRGBSetting])
    ELSE LET switchState == b.pinSwitch
             c == IF switchState = HIGH
                  THEN [triggerBuzzerPattern(b, b.inactiveBuzzerSetting)
                           EXCEPT !.stateChanged = TRUE]
                  ELSE b
         IN  applyRGBMode([c EXCEPT !.currentRGBMode = c.inactiveRGBSetting])

onActiveBoxChange(b) ==
    IF rev = "latest" THEN onActiveBoxChange_latest(b)
                      ELSE onActiveBoxChange_softstart(b)

\* The cloud library stores the received value in active_box and then
\* calls onActiveBoxChange.
receiveActiveBox(b, id) == onActiveBoxChange([b EXCEPT !.active_box = id])

\* ------------------------------------------------------------------
\* Persistent store (Preferences) and startup
\* ------------------------------------------------------------------
\* The store is a function from the keys it holds to their values.
getInt(store, key, default) == IF key \in DOMAIN store THEN store[key] ELSE default

putInt(store, key, v) ==
    [k \in DOMAIN store \cup {key} |-> IF k = key THEN v ELSE store[k]]

EmptyStore == [k \in {} |-> 0]

\* What the store may hold at boot: nothing (a new device), or presets
\* saved from the menu earlier.
FullStore ==
    [k \in {"active_rgb", "inactive_rgb", "rgb_brightness",
            "active_buzzer", "inactive_buzzer", "motor_speed"} |->
        CASE k = "active_rgb"      -> RGB_WHITE
          [] k = "inactive_rgb"    -> RGB_OFF
          [] k = "rgb_brightness"  -> 50
          [] k = "active_buzzer"   -> BUZZER_SOS
          [] k = "inactive_buzzer" -> BUZZER_LOOP
          [] k = "motor_speed"     -> 10]

PartialStore ==
    [k \in {"active_rgb", "inactive_rgb", "active_buzzer",
            "inactive_buzzer", "motor_speed"} |->
        CASE k = "active_rgb"      -> RGB_SOLID_BLUE
          [] k = "inactive_rgb"    -> RGB_BREATHING
          [] k = "active_buzzer"   -> BUZZER_SINGLE
          [] k = "inactive_buzzer" -> BUZZER_SINGLE
          [] k = "motor_speed"     -> 0]

Stores == {EmptyStore, FullStore, PartialStore}

\* A store with presets outside the enumerations
EnumStore ==
    [k \in {"active_rgb", "inactive_rgb", "active_buzzer", "inactive_buzzer"} |->
        CASE k = "active_rgb"      -> RGB_WHITE
          [] k = "inactive_rgb"    -> RGB_MODE_COUNT + 2
          [] k = "active_buzzer"   -> BUZZER_PATTERN_COUNT + 2
          [] k = "inactive_buzzer" -> BUZZER_LOOP]

\* The globals as declared, with the input pins at the given levels and
\* the given store.  motorSpeed is motor_speed_percent in revision
\* "softstart".
Declared(name, pinSwitch, pinLimit, store) ==
    [ name |-> name,
      pinSwitch |-> pinSwitch, pinLimit |-> pinLimit,
      prefs |-> store,
      active_box |-> "",
      currentRGBMode |-> RGB_RAINBOW,
      rgbOut |-> <<0, 0, 0>>,
      breathValue |-> 0, breathDir |-> 1,
      \* lastRGBAnimation = 0: long past
      sinceRGBAnimation |-> RGB_UPDATE_INTERVAL + 1,
      activeRGBSetting |-> RGB_RAINBOW,
      inactiveRGBSetting |-> RGB_SOLID_RED,
      activeBuzzerSetting |-> IF rev = "latest" THEN BUZZER_CHIRP ELSE BUZZER_OFF,
      inactiveBuzzerSetting |-> IF rev = "latest" THEN BUZZER_SINGLE ELSE BUZZER_OFF,
      rgb_brightness_percentage |-> DEFAULT_RGB_BRIGHTNESS_PERCENTAGE,
      motorSpeed |-> 100,
      currentBuzzerPattern |-> BUZZER_OFF, buzzerState |-> FALSE, buzzerStep |-> 0,
      buzzerDemo |-> FALSE,
      \* buzzerLast = 0 and buzzerDemoStart = 0: both times are long past
      sinceBuzzerLast |-> BuzzerLastCap,
      sinceBuzzerDemoStart |-> BUZZER_DEMO_DURATION,
      tone |-> 0, toneLeft |-> 0,
      switch_forward |-> FALSE, limit_pressed |-> FALSE, stateChanged |-> FALSE,
      EN1 |-> LOW, IN1 |-> LOW, IN2 |-> LOW,
      \* revision "latest"
      motorDirection |-> STOPPED, motorShouldRun |-> FALSE, motorPWMEnabled |-> FALSE,
      \* revision "softstart"
      motor_forward |-> TRUE, motor_enabled |-> TRUE,
      sinceMotorStartTime |-> MOTOR_SOFT_START_DURATION,
      motorIsStarting |-> FALSE, lastMotorDirection |-> STOPPED,
      pwmEnableState |-> FALSE, motorShouldRunPWM |-> FALSE,
      \* lastMotorUpdate, lastMotorPWMUpdate, lastPWMUpdate and pwmCycleStart
      \* are declared 0: the first pass of the loop is later than every
      \* interval they are compared with
      sinceMotorUpdate |-> MOTOR_UPDATE_INTERVAL,
      sinceMotorPWM |-> MOTOR_PWM_CYCLE_TIME,
      sincePWMUpdate |-> MOTOR_PWM_UPDATE_INTERVAL,
      cyclePosition |-> 0,
      buzzer_volume_percentage |-> DEFAULT_BUZZER_VOLUME_PERCENTAGE,
      \* menu
      menuIndex |-> 0, inSubMenu |-> FALSE,
      lastShortPressCount |-> 0, lastLongPressCount |-> 0,
      \* history
      trig |-> <<>>, recomp |-> 0, sinceTrigger |-> 0, blocked |-> 0, boots |-> 0,
      \* history: how long the raw switch and limit levels have been stable,
      \* where a specification follows it
      sinceRaw |-> 0 ]

setActiveBuzzerSetting(b, pattern) ==
    [b EXCEPT !.activeBuzzerSetting = pattern,
              !.prefs = putInt(@, "active_buzzer", pattern)]

setInactiveBuzzerSetting(b, pattern) ==
    [b EXCEPT !.inactiveBuzzerSetting = pattern,
              !.prefs = putInt(@, "inactive_buzzer", pattern)]

setMotorSpeed_latest(b, speed) ==
    LET v == IF speed <= 0 THEN 0 ELSE IF speed > 100 THEN 100 ELSE speed
    IN  [b EXCEPT !.motorSpeed = v, !.prefs = putInt(@, "motor_speed", v)]

setMotorSpeed_softstart(b, percent) ==
    LET v == IF percent < 0 THEN 0 ELSE IF percent > 100 THEN 100 ELSE percent
    IN  [b EXCEPT !.motorSpeed = v, !.prefs = putInt(@, "motor_speed", v),
                  !.stateChanged = TRUE]

setMotorSpeed(b, percent) ==
    IF rev = "latest" THEN setMotorSpeed_latest(b, percent)
                      ELSE setMotorSpeed_softstart(b, percent)

\* Menu item "Active Buzzer", adjust callback; revision "latest" plays the
\* new pattern as a demo.
adjustActiveBuzzerSetting(b) ==
    LET next == (b.activeBuzzerSetting + 1) % BUZZER_PATTERN_COUNT
        c    == setActiveBuzzerSetting(b, next)
    IN  IF rev = "latest" THEN demoBuzzerPattern(c, next) ELSE c

\* Menu item "Inactive Buzzer", adjust callback
adjustInactiveBuzzerSetting(b) ==
    LET next == (b.inactiveBuzzerSetting + 1) % BUZZER_PATTERN_COUNT
        c    == setInactiveBuzzerSetting(b, next)
    IN  IF rev = "latest" THEN demoBuzzerPattern(c, next) ELSE c

\* ------------------------------------------------------------------
\* Preset setters and the settings menu
\* ------------------------------------------------------------------
\* beepBuzzer waits in delay(); blocked is history: the time the current
\* handler call has spent in delay().
beepBuzzer(b, quantity, duration_ms, pause_ms) ==
    IF quantity <= 0 THEN b
    ELSE noTone([b EXCEPT !.blocked = @ + quantity * (duration_ms + pause_ms)])

\* Faulty variant: the active preset is changed in memory only.
setActiveRGBSetting_notStored(b, mode) == [b EXCEPT !.activeRGBSetting = mode]

setActiveRGBSetting(b, mode) ==
    [b EXCEPT !.activeRGBSetting = mode, !.prefs = putInt(@, "active_rgb", mode)]

setInactiveRGBSetting(b, mode) ==
    [b EXCEPT !.inactiveRGBSetting = mode, !.prefs = putInt(@, "inactive_rgb", mode)]

\* Faulty variant: no upper limit.
setRGBBrightness_noUpperClamp(b, percent) ==
    LET v == IF percent < 0 THEN 0 ELSE percent
    IN  [applyRGBMode([b EXCEPT !.rgb_brightness_percentage = v])
            EXCEPT !.prefs = putInt(@, "rgb_brightness", v)]

setRGBBrightness(b, percent) ==
    LET v == IF percent < 0 THEN 0 ELSE IF percent > 100 THEN 100 ELSE percent
    IN  [applyRGBMode([b EXCEPT !.rgb_brightness_percentage = v])
            EXCEPT !.prefs = putInt(@, "rgb_brightness", v)]

\* part_000 only
setBuzzerVolume(b, percent) ==
    LET v == IF percent < 0 THEN 0 ELSE IF percent > 100 THEN 100 ELSE percent
    IN  [b EXCEPT !.buzzer_volume_percentage = v,
                  !.prefs = putInt(@, "buzzer_vol", v)]

\* The show callbacks print; those of the RGB presets of revision "latest"
\* also preview the preset on the LED.
showActiveRGB(b) ==
    IF rev = "latest"
    THEN applyRGBMode([b EXCEPT !.currentRGBMode = b.activeRGBSetting])
    ELSE b

\* Faulty variant: the item of the inactive preset previews the active one.
showInactiveRGB_showsActive(b) ==
    IF rev = "latest"
    THEN applyRGBMode([b EXCEPT !.currentRGBMode = b.activeRGBSetting])
    ELSE b

showInactiveRGB(b) ==
    IF rev = "latest"
    THEN applyRGBMode([b EXCEPT !.currentRGBMode = b.inactiveRGBSetting])
    ELSE b

adjustActiveRGB(b) ==
    LET next == (b.activeRGBSetting + 1) % RGB_MODE_COUNT
        c    == showActiveRGB(setActiveRGBSetting(b, next))
    IN  IF rev = "latest" THEN beepBuzzer(c, 1, 100, 100) ELSE c

adjustInactiveRGB(b) ==
    LET next == (b.inactiveRGBSetting + 1) % RGB_MODE_COUNT
        c    == showInactiveRGB(setInactiveRGBSetting(b, next))
    IN  IF rev = "latest" THEN beepBuzzer(c, 1, 100, 100) ELSE c

confirmActiveRGB(b) ==
    IF rev = "latest" THEN updateRGBModeFromBoxState(showActiveRGB(b)) ELSE b

confirmInactiveRGB(b) ==
    IF rev = "latest" THEN updateRGBModeFromBoxState(showInactiveRGB(b)) ELSE b

adjustRGBBrightness(b) ==
    LET n    == b.rgb_brightness_percentage + 10
        next == IF n > 100 THEN 0 ELSE n
        c    == setRGBBrightness(b, next)
    IN  IF rev = "latest" THEN beepBuzzer(c, CDiv(next, 10), 100, 100) ELSE c

\* part_000 plays the saved pattern once as confirmation
confirmActiveBuzzerSetting(b) ==
    IF rev = "latest" THEN b ELSE triggerBuzzerPattern(b, b.activeBuzzerSetting)

confirmInactiveBuzzerSetting(b) ==
    IF rev = "latest" THEN b ELSE triggerBuzzerPattern(b, b.inactiveBuzzerSetting)

adjustBuzzerVolume(b) ==
    LET n    == b.buzzer_volume_percentage + 10
        next == IF n > 100 THEN 0 ELSE n
    IN  setBuzzerVolume(b, next)

adjustMotorSpeed(b) ==
    LET n    == b.motorSpeed + 10
        next == IF n > 100 THEN (IF rev = "latest" THEN 40 ELSE 0) ELSE n
        c    == setMotorSpeed(b, next)
    IN  IF rev = "latest" THEN beepBuzzer(c, CDiv(next, 10), 100, 100) ELSE c

menuItems ==
    IF rev = "latest"
    THEN <<"Active RGB", "Inactive RGB", "RGB Brightness", "Active Buzzer",
           "Inactive Buzzer", "Motor Speed">>
    ELSE <<"Active RGB", "Inactive RGB", "RGB Brightness", "Active Buzzer",
           "Inactive Buzzer", "Buzzer Volume", "Motor Speed">>

totalMenus == Len(menuItems)

onShow(b, item) ==
    CASE item = "Active RGB"   -> showActiveRGB(b)
      [] item = "Inactive RGB" -> showInactiveRGB(b)
      [] OTHER                 -> b

onAdjust(b, item) ==
    CASE item = "Active RGB"      -> adjustActiveRGB(b)
      [] item = "Inactive RGB"    -> adjustInactiveRGB(b)
      [] item = "RGB Brightness"  -> adjustRGBBrightness(b)
      [] item = "Active Buzzer"   -> adjustActiveBuzzerSetting(b)
      [] item = "Inactive Buzzer" -> adjustInactiveBuzzerSetting(b)
      [] item = "Buzzer Volume"   -> adjustBuzzerVolume(b)
      [] item = "Motor Speed"     -> adjustMotorSpeed(b)

onConfirm(b, item) ==
    CASE item = "Active RGB"      -> confirmActiveRGB(b)
      [] item = "Inactive RGB"    -> confirmInactiveRGB(b)
      [] item = "Active Buzzer"   -> confirmActiveBuzzerSetting(b)
      [] item = "Inactive Buzzer" -> confirmInactiveBuzzerSetting(b)
      [] OTHER                    -> b

showMenu(b) == onShow(b, menuItems[b.menuIndex + 1])

\* Faulty variant: a long press while editing confirms but stays in the
\* submenu.
handleSerialMenu_noLeave(b, short, long) ==
    LET b1 == IF short > b.lastShortPressCount
              THEN LET c == [b EXCEPT !.lastShortPressCount = short]
                   IN  IF ~c.inSubMenu
                       THEN showMenu([c EXCEPT !.menuIndex = (@ + 1) % totalMenus])
                       ELSE onAdjust(c, menuItems[c.menuIndex + 1])
              ELSE b
    IN  IF long > b1.lastLongPressCount
        THEN LET c == [b1 EXCEPT !.lastLongPressCount = long]
             IN  IF ~c.inSubMenu
                 THEN onShow([c EXCEPT !.inSubMenu = TRUE], menuItems[c.menuIndex + 1])
                 ELSE showMenu(onConfirm(c, menuItems[c.menuIndex + 1]))
        ELSE b1

\* The handling of new presses in part_000: no beeps
handleSerialMenu_presses(b, short, long) ==
    LET b1 == IF short > b.lastShortPressCount
              THEN LET c == [b EXCEPT !.lastShortPressCount = short]
                   IN  IF ~c.inSubMenu
                       THEN showMenu([c EXCEPT !.menuIndex = (@ + 1) % totalMenus])
                       ELSE onAdjust(c, menuItems[c.menuIndex + 1])
              ELSE b
    IN  IF long > b1.lastLongPressCount
        THEN LET c == [b1 EXCEPT !.lastLongPressCount = long]
             IN  IF ~c.inSubMenu
                 THEN onShow([c EXCEPT !.inSubMenu = TRUE], menuItems[c.menuIndex + 1])
                 ELSE showMenu(onConfirm([c EXCEPT !.inSubMenu = FALSE],
                                         menuItems[c.menuIndex + 1]))
        ELSE b1

\* Faulty variant: browsing stops at the last item instead of wrapping.
handleSerialMenu_sticksAtLast(b, short, long) ==
    LET b1 == IF short > b.lastShortPressCount
              THEN LET c == [b EXCEPT !.lastShortPressCount = short]
                   IN  IF ~c.inSubMenu
                       THEN LET d == showMenu([c EXCEPT !.menuIndex =
                                         IF @ + 1 >= totalMenus THEN @ ELSE @ + 1])
                            IN  beepBuzzer(d, d.menuIndex + 1, 100, 100)
                       ELSE onAdjust(c, menuItems[c.menuIndex + 1])
              ELSE b
    IN  IF long > b1.lastLongPressCount
        THEN LET c == [b1 EXCEPT !.lastLongPressCount = long]
             IN  IF ~c.inSubMenu
                 THEN beepBuzzer(onShow([c EXCEPT !.inSubMenu = TRUE],
                                        menuItems[c.menuIndex + 1]),
                                 1, 500, 100)
                 ELSE beepBuzzer(showMenu(onConfirm([c EXCEPT !.inSubMenu = FALSE],
                                                    menuItems[c.menuIndex + 1])),
                                 1, 500, 100)
        ELSE b1

\* Faulty variant: a handled short press is not recorded as observed.
handleSerialMenu_shortNotRecorded(b, short, long) ==
    LET b1 == IF short > b.lastShortPressCount
              THEN LET c == b
                   IN  IF ~c.inSubMenu
                       THEN LET d == showMenu([c EXCEPT !.menuIndex =
                                                   (@ + 1) % totalMenus])
                            IN  beepBuzzer(d, d.menuIndex + 1, 100, 100)
                       ELSE onAdjust(c, menuItems[c.menuIndex + 1])
              ELSE b
    IN  IF long > b1.lastLongPressCount
        THEN LET c == [b1 EXCEPT !.lastLongPressCount = long]
             IN  IF ~c.inSubMenu
                 THEN beepBuzzer(onShow([c EXCEPT !.inSubMenu = TRUE],
                                        menuItems[c.menuIndex + 1]),
                                 1, 500, 100)
                 ELSE beepBuzzer(showMenu(onConfirm([c EXCEPT !.inSubMenu = FALSE],
                                                    menuItems[c.menuIndex + 1])),
                                 1, 500, 100)
        ELSE b1

handleSerialMenu_latest(b, short, long) ==
    LET b1 == IF short > b.lastShortPressCount
              THEN LET c == [b EXCEPT !.lastShortPressCount = short]
                   IN  IF ~c.inSubMenu
                       THEN LET d == showMenu([c EXCEPT !.menuIndex =
                                                   (@ + 1) % totalMenus])
                            IN  beepBuzzer(d, d.menuIndex + 1, 100, 100)
                       ELSE onAdjust(c, menuItems[c.menuIndex + 1])
              ELSE b
    IN  IF long > b1.lastLongPressCount
        THEN LET c == [b1 EXCEPT !.lastLongPressCount = long]
             IN  IF ~c.inSubMenu
                 THEN beepBuzzer(onShow([c EXCEPT !.inSubMenu = TRUE],
                                        menuItems[c.menuIndex + 1]),
                                 1, 500, 100)
                 ELSE beepBuzzer(showMenu(onConfirm([c EXCEPT !.inSubMenu = FALSE],
                                                    menuItems[c.menuIndex + 1])),
                                 1, 500, 100)
        ELSE b1

\* part_000: the menu goes back to the main screen when the last press is
\* more than MENU_TIMEOUT_MS ago (timedOut), and there are no beeps.
handleSerialMenu_softstart(b, short, long, timedOut) ==
    LET b0 == IF timedOut /\ (b.menuIndex # 0 \/ b.inSubMenu)
              THEN showMenu([b EXCEPT !.menuIndex = 0, !.inSubMenu = FALSE])
              ELSE b
    IN  handleSerialMenu_presses(b0, short, long)

\* Faulty variant: the inactivity timeout is active in both revisions.
handleSerialMenu_timeoutKept(b, short, long, timedOut) ==
    LET b0 == IF timedOut /\ (b.menuIndex # 0 \/ b.inSubMenu)
              THEN showMenu([b EXCEPT !.menuIndex = 0, !.inSubMenu = FALSE])
              ELSE b
    IN  IF rev = "latest" THEN handleSerialMenu_latest(b0, short, long)
                          ELSE handleSerialMenu_presses(b0, short, long)

handleSerialMenu(b, short, long, timedOut) ==
    IF rev = "latest" THEN handleSerialMenu_latest(b, short, long)
                      ELSE handleSerialMenu_softstart(b, short, long, timedOut)

\* ------------------------------------------------------------------
\* Startup
\* ------------------------------------------------------------------
\* part_000 also reads "rgb_mode" and "buzzer_vol".
loadPersistentSettings(b) ==
    applyRGBMode(
        [b EXCEPT
           !.currentRGBMode = IF rev = "latest" THEN @
                              ELSE getInt(b.prefs, "rgb_mode", @),
           !.buzzer_volume_percentage = IF rev = "latest" THEN @
                                        ELSE getInt(b.prefs, "buzzer_vol", @),
           !.activeRGBSetting = getInt(b.prefs, "active_rgb", @),
           !.inactiveRGBSetting = getInt(b.prefs, "inactive_rgb", @),
           !.rgb_brightness_percentage = getInt(b.prefs, "rgb_brightness", @),
           !.activeBuzzerSetting = getInt(b.prefs, "active_buzzer", @),
           !.inactiveBuzzerSetting = getInt(b.prefs, "inactive_buzzer", @),
           !.motorSpeed = getInt(b.prefs, "motor_speed", @),
           !.buzzerStep = 0,
           !.buzzerState = FALSE,
           !.sinceBuzzerLast = 0])

\* A handler call starts with an empty history.
Fresh(b) == [b EXCEPT !.trig = <<>>, !.recomp = 0, !.blocked = 0]

setup_latest(b) ==
    LET c == setRGB(loadPersistentSettings(b), 0, 0, 0)
    IN  updateRGBModeFromBoxState(onActiveBoxChange_latest(c))

setup_softstart(b) ==
    LET c == setRGB(loadPersistentSettings(b), 0, 0, 0)
        d == [c EXCEPT !.switch_forward = c.pinSwitch, !.limit_pressed = c.pinLimit]
        e == modifyMotorState_softstart(d, d.switch_forward, d.limit_pressed)
    IN  onActiveBoxChange_softstart(e)

setup(b) == IF rev = "latest" THEN setup_latest(b) ELSE setup_softstart(b)

\* ------------------------------------------------------------------
\* Initial states of the parts a specification leaves alone
\* ------------------------------------------------------------------
ButtonAtBoot ==
    /\ buttonPin = HIGH
    /\ settingsButtonState = HIGH
    /\ lastSettingsButtonState = HIGH
    /\ sinceLastDebounceTime = DEBOUNCE_TIME + 1
    /\ sincePressedTime = LONG_PRESS_TIME + 1
    /\ longPressActive = FALSE
    /\ shortPressCount = 0
    /\ longPressCount = 0
    /\ press = [heldFor |-> 0, shortAtPress |-> 0, longAtPress |-> 0,
                away |-> FALSE, awayFor |-> 0, runs |-> 0, glitchOnly |-> TRUE]

PairUnused ==
    /\ boxes = <<>>
    /\ cloud = NONE
    /\ toBox = <<>>
    /\ driven = <<>>

BoxUnused ==
    /\ box = Fresh(setup(Declared(MICHAEL, LOW, LOW, EmptyStore)))
    /\ ev = [op |-> "setup", edge |-> "none"]

\* ------------------------------------------------------------------
\* One box; its peer and the cloud are the environment
\* ------------------------------------------------------------------
\* Time that passes between two steps of the loop
MotorSteps == {75, 100}

Edge(b) == IF b.pinSwitch = b.switch_forward THEN "none"
           ELSE IF b.pinSwitch = HIGH THEN "on" ELSE "off"

Init ==
    /\ rev \in Revisions
    /\ \E store \in Stores, sw \in BOOLEAN, lim \in BOOLEAN :
          box = Fresh(setup(Declared(MICHAEL, sw, lim, store)))
    /\ ev = [op |-> "setup", edge |-> "none"]
    /\ ButtonAtBoot
    /\ PairUnused

\* The operator moves the switch
FlipSwitch ==
    /\ box' = [Fresh(box) EXCEPT !.pinSwitch = ~@, !.sinceRaw = 0]
    /\ ev' = [op |-> "pin", edge |-> "none"]
    /\ UNCHANGED <<rev, buttonVars, pairVars>>

\* The arm reaches or leaves the limit switch
FlipLimit ==
    /\ box' = [Fresh(box) EXCEPT !.pinLimit = ~@, !.sinceRaw = 0]
    /\ ev' = [op |-> "pin", edge |-> "none"]
    /\ UNCHANGED <<rev, buttonVars, pairVars>>

\* ArduinoCloud.update() delivers a new value of active_box
RemoteUpdate(id) ==
    /\ box' = receiveActiveBox(Fresh(box), id)
    /\ ev' = [op |-> "remote", edge |-> "none"]
    /\ UNCHANGED <<rev, buttonVars, pairVars>>

HandleSwitchDetection ==
    /\ box' = handleSwitchDetection(Fresh(box))
    /\ ev' = [op |-> "switch", edge |-> Edge(box)]
    /\ UNCHANGED <<rev, buttonVars, pairVars>>

\* Time passes.  No action of this specification reads the buzzer clocks,
\* so they are left alone here.
TickMotor(dt) ==
    /\ box' = elapseMotor(Fresh(box), dt)
    /\ ev' = [op |-> "tick", edge |-> "none"]
    /\ UNCHANGED <<rev, buttonVars, pairVars>>

\* A short press in the menu while the item "Active Buzzer" is being edited
AdjustActiveBuzzer ==
    /\ box' = adjustActiveBuzzerSetting(Fresh(box))
    /\ ev' = [op |-> "menu", edge |-> "none"]
    /\ UNCHANGED <<rev, buttonVars, pairVars>>

Next ==
    \/ FlipSwitch
    \/ FlipLimit
    \/ \E id \in {MICHAEL, TREVOR, NONE} : RemoteUpdate(id)
    \/ HandleSwitchDetection
    \/ \E dt \in MotorSteps : TickMotor(dt)
    \/ AdjustActiveBuzzer

Spec == Init /\ [][Next]_vars

\* Each revision on its own
SpecLatest    == Init /\ rev = "latest" /\ [][Next]_vars
SpecSoftstart == Init /\ rev = "softstart" /\ [][Next]_vars

\* ------------------------------------------------------------------
\* A box that is started with its switch on, and whose switch is not moved
\* ------------------------------------------------------------------
InitBoot ==
    /\ rev \in Revisions
    /\ \E store \in Stores, lim \in BOOLEAN :
          box = Fresh(setup(Declared(MICHAEL, HIGH, lim, store)))
    /\ ev = [op |-> "setup", edge |-> "none"]
    /\ ButtonAtBoot
    /\ PairUnused

NextBoot ==
    \/ FlipLimit
    \/ \E id \in {TREVOR, NONE} : RemoteUpdate(id)
    \/ HandleSwitchDetection
    \/ \E dt \in MotorSteps : TickMotor(dt)

SpecBoot == InitBoot /\ [][NextBoot]_vars

\* ------------------------------------------------------------------
\* One box with its buzzer playing
\* ------------------------------------------------------------------
BuzzerSteps == {250, 500}

InitFeedback ==
    /\ rev \in Revisions
    /\ box = Fresh(setup(Declared(MICHAEL, LOW, LOW, FullStore)))
    /\ ev = [op |-> "setup", edge |-> "none"]
    /\ ButtonAtBoot
    /\ PairUnused

UpdateBuzzerAlarm ==
    /\ box' = updateBuzzerAlarm(Fresh(box))
    /\ ev' = [op |-> "buzzer", edge |-> "none"]
    /\ UNCHANGED <<rev, buttonVars, pairVars>>

Tick(dt) ==
    /\ box' = elapseBuzzer(elapseMotor(Fresh(box), dt), dt)
    /\ ev' = [op |-> "tick", edge |-> "none"]
    /\ UNCHANGED <<rev, buttonVars, pairVars>>

NextFeedback ==
    \/ FlipSwitch
    \/ \E id \in {MICHAEL, TREVOR, NONE} : RemoteUpdate(id)
    \/ HandleSwitchDetection
    \/ AdjustActiveBuzzer
    \/ UpdateBuzzerAlarm
    \/ \E dt \in BuzzerSteps : Tick(dt)

SpecFeedback == InitFeedback /\ [][NextFeedback]_vars

\* ------------------------------------------------------------------
\* The settings button (handleSettingsButton is the same in both revisions)
\* ------------------------------------------------------------------
\* Time that passes between two steps
ButtonSteps == {25, 51}

\* Presses the counters are followed for
MaxPresses == 2

\* History of the button, kept beside the handler:
\*   heldFor       time since the debounced level went LOW, stopped at the
\*                 release
\*   shortAtPress, longAtPress   the counters when it went LOW
\*   away, awayFor the last sample differed from the debounced level, and
\*                 the time since the first sample of that run of samples
\*   runs          how many such runs have begun (counted up to 2)
\*   glitchOnly    no run has lasted DEBOUNCE_TIME so far
observeButton(h, reading, before, after, short, long) ==
    LET run   == IF h.away THEN h.awayFor ELSE 0
        isAway == reading # before
        h1 == IF isAway /\ run >= DEBOUNCE_TIME
              THEN [h EXCEPT !.glitchOnly = FALSE] ELSE h
        h2 == [h1 EXCEPT !.runs = IF isAway /\ ~h.away THEN Min(@ + 1, 2) ELSE @,
                         !.away = (reading # after),
                         !.awayFor = IF reading # after THEN run ELSE 0]
    IN  IF before = HIGH /\ after = LOW
        THEN [h2 EXCEPT !.heldFor = 0, !.shortAtPress = short, !.longAtPress = long]
        ELSE h2

\* Faulty variant of the debounce test: a changed sample is accepted at once.
debounced_noWindow(since) == since >= 0

\* (millis() - lastDebounceTime) > DEBOUNCE_TIME
debounced(since) == since > DEBOUNCE_TIME

\* Faulty variant of the release test: the wrong threshold.
shortPress_wrongThreshold(pressDuration, lpa) ==
    pressDuration < DEBOUNCE_TIME /\ ~lpa

\* pressDuration < LONG_PRESS_TIME && !longPressActive
shortPress(pressDuration, lpa) == pressDuration < LONG_PRESS_TIME /\ ~lpa

\* handleSettingsButton: what one call does to the button state and the
\* counters
handleSettingsButton ==
    LET reading  == buttonPin
        since    == IF reading # lastSettingsButtonState
                    THEN 0 ELSE sinceLastDebounceTime
        accept   == debounced(since) /\ reading # settingsButtonState
        state    == IF accept THEN reading ELSE settingsButtonState
        pressed  == accept /\ state = LOW
        released == accept /\ state # LOW
        pressedT == IF pressed THEN 0 ELSE sincePressedTime
        lpa1     == IF pressed THEN FALSE ELSE longPressActive
        short    == IF released /\ shortPress(pressedT, lpa1)
                    THEN shortPressCount + 1 ELSE shortPressCount
        isLong   == state = LOW /\ ~lpa1 /\ pressedT > LONG_PRESS_TIME
    IN  /\ sinceLastDebounceTime' = since
        /\ settingsButtonState' = state
        /\ sincePressedTime' = pressedT
        /\ shortPressCount' = short
        /\ longPressActive' = (lpa1 \/ isLong)
        /\ longPressCount' = IF isLong THEN longPressCount + 1 ELSE longPressCount
        /\ lastSettingsButtonState' = reading
        /\ press' = observeButton(press, reading, settingsButtonState, state,
                                  shortPressCount, longPressCount)

HandleSettingsButton ==
    /\ handleSettingsButton
    /\ UNCHANGED <<rev, boxVars, pairVars, buttonPin>>

\* The user presses or lets go of the button, or a contact bounces
FlipButton ==
    /\ buttonPin = HIGH => shortPressCount + longPressCount < MaxPresses
    /\ buttonPin' = ~buttonPin
    /\ UNCHANGED <<rev, boxVars, pairVars, settingsButtonState,
                   lastSettingsButtonState, sinceLastDebounceTime,
                   sincePressedTime, longPressActive, shortPressCount,
                   longPressCount, press>>

\* The clocks of the button code after dt
elapseButton(dt) ==
    /\ sinceLastDebounceTime' = Min(sinceLastDebounceTime + dt, DEBOUNCE_TIME + 1)
    /\ sincePressedTime' = Min(sincePressedTime + dt, LONG_PRESS_TIME + 1)
    /\ press' = [press EXCEPT
                    !.heldFor = IF settingsButtonState = LOW
                                THEN Min(@ + dt, LONG_PRESS_TIME + 1) ELSE @,
                    !.awayFor = IF press.away
                                THEN Min(@ + dt, DEBOUNCE_TIME + 1) ELSE @]

TickButton(dt) ==
    /\ elapseButton(dt)
    /\ UNCHANGED <<rev, boxVars, pairVars, buttonPin, settingsButtonState,
                   lastSettingsButtonState, longPressActive, shortPressCount,
                   longPressCount>>

InitButton ==
    /\ rev = "latest"
    /\ BoxUnused
    /\ PairUnused
    /\ ButtonAtBoot

NextButton ==
    \/ FlipButton
    \/ HandleSettingsButton
    \/ \E dt \in ButtonSteps : TickButton(dt)

SpecButton == InitButton /\ [][NextButton]_vars

\* ------------------------------------------------------------------
\* Two paired boxes and the shared claim slot
\* ------------------------------------------------------------------
\* The cloud is a last-writer-wins register: a box's write of active_box
\* travels through the register to the other box, where the library stores
\* it and calls onActiveBoxChange.  The writes of a box arrive in the order
\* it made them.  No box reads the register except through these updates,
\* so the register is taken to change when the update arrives.

\* Writes of one box that may be under way at a time
MaxInFlight == 1

InFlightFrom(b) == Len(toBox[Peer(b)])

\* Nothing is under way
Quiet == \A b \in Boxes : toBox[b] = <<>>

\* Box b runs op; every box starts the step with an empty history
StepOf(b, op(_)) ==
    [c \in Boxes |-> IF c = b THEN op(Fresh(boxes[c])) ELSE Fresh(boxes[c])]

InitPair ==
    /\ rev \in Revisions
    /\ boxes = [b \in Boxes |-> Fresh(setup(Declared(b, LOW, LOW, EmptyStore)))]
    /\ cloud = NONE
    /\ toBox = [b \in Boxes |-> <<>>]
    /\ driven = [b \in Boxes |-> "no"]
    /\ BoxUnused
    /\ ButtonAtBoot

\* Somebody, or the arm of box b, moves the switch of box b
FlipSwitchOf(b) ==
    LET flip(x) == [x EXCEPT !.pinSwitch = ~@]
    IN  /\ InFlightFrom(b) < MaxInFlight
        /\ boxes' = StepOf(b, flip)
        /\ driven' = [driven EXCEPT ![b] = "no"]
        /\ UNCHANGED <<rev, boxVars, buttonVars, cloud, toBox>>

FlipLimitOf(b) ==
    LET flip(x) == [x EXCEPT !.pinLimit = ~@]
    IN  /\ boxes' = StepOf(b, flip)
        /\ UNCHANGED <<rev, boxVars, buttonVars, cloud, toBox, driven>>

\* handleSwitchDetection of box b; a changed active_box is published
HandleSwitchDetectionOf(b) ==
    /\ boxes' = StepOf(b, handleSwitchDetection)
    /\ toBox' = IF boxes'[b].active_box # boxes[b].active_box
                THEN [toBox EXCEPT ![Peer(b)] = Append(@, boxes'[b].active_box)]
                ELSE toBox
    /\ driven' = [driven EXCEPT ![b] = IF @ = "no" THEN "no" ELSE "handled"]
    /\ UNCHANGED <<rev, boxVars, buttonVars, cloud>>

\* The register takes a write of the peer and ArduinoCloud.update() of box b
\* receives it
Deliver(b) ==
    LET id == Head(toBox[b])
        receive(x) == receiveActiveBox(x, id)
    IN  /\ toBox[b] # <<>>
        /\ cloud' = id
        /\ toBox' = [toBox EXCEPT ![b] = Tail(@)]
        /\ boxes' = StepOf(b, receive)
        /\ driven' = [driven EXCEPT ![b] =
                          IF id = Peer(b) /\ boxes[b].pinSwitch = HIGH
                                          /\ boxes[b].switch_forward = HIGH
                          THEN "delivered" ELSE @]
        /\ UNCHANGED <<rev, boxVars, buttonVars>>

\* The soft-start window passes
TickPair ==
    /\ boxes' = [c \in Boxes |->
                    elapseMotor(Fresh(boxes[c]), MOTOR_SOFT_START_DURATION)]
    /\ UNCHANGED <<rev, boxVars, buttonVars, cloud, toBox, driven>>

NextPair ==
    \/ \E b \in Boxes : FlipSwitchOf(b)
    \/ \E b \in Boxes : FlipLimitOf(b)
    \/ \E b \in Boxes : HandleSwitchDetectionOf(b)
    \/ \E b \in Boxes : Deliver(b)
    \/ TickPair

SpecPair == InitPair /\ [][NextPair]_vars

\* ------------------------------------------------------------------
\* The speed setting and the duty it is mapped to
\* ------------------------------------------------------------------
\* Arguments setMotorSpeed is called with
SpeedArgs == (0 - 2) .. 102

InitDuty ==
    /\ rev \in Revisions
    /\ box = Fresh(setup(Declared(MICHAEL, LOW, LOW, EmptyStore)))
    /\ ev = [op |-> "boot", edge |-> "none"]
    /\ ButtonAtBoot
    /\ PairUnused

SetMotorSpeed(percent) ==
    /\ box' = setMotorSpeed(Fresh(box), percent)
    /\ ev' = [op |-> "setMotorSpeed", edge |-> "none", arg |-> percent]
    /\ UNCHANGED <<rev, buttonVars, pairVars>>

NextDuty == \E percent \in SpeedArgs : SetMotorSpeed(percent)

SpecDuty == InitDuty /\ [][NextDuty]_vars

\* ------------------------------------------------------------------
\* The buzzer with updateBuzzerAlarm called at every time unit
\* ------------------------------------------------------------------
\* The time unit: every time the buzzer code compares with is a multiple
SosStep == 50

\* Where the history clock sinceTrigger stops
SosCap == 4000

InitSos ==
    /\ rev \in Revisions
    /\ box = Fresh(setup(Declared(MICHAEL, LOW, LOW, FullStore)))
    /\ ev = [op |-> "boot", edge |-> "none"]
    /\ ButtonAtBoot
    /\ PairUnused

\* A claim transition with the SOS preset: triggerBuzzerPattern(BUZZER_SOS)
TriggerSos ==
    /\ box' = triggerBuzzerPattern(Fresh(box), BUZZER_SOS)
    /\ ev' = [op |-> "trigger", edge |-> "none"]
    /\ UNCHANGED <<rev, buttonVars, pairVars>>

\* The menu of revision "latest" previews a pattern
DemoPattern(pattern) ==
    /\ rev = "latest"
    /\ box' = demoBuzzerPattern(Fresh(box), pattern)
    /\ ev' = [op |-> "demo", edge |-> "none"]
    /\ UNCHANGED <<rev, buttonVars, pairVars>>

\* One time unit passes and updateBuzzerAlarm runs
BuzzerPass ==
    LET c == elapseBuzzer(Fresh(box), SosStep)
        d == [c EXCEPT !.sinceTrigger = Min(@ + SosStep, SosCap)]
    IN  /\ box' = updateBuzzerAlarm(d)
        /\ ev' = [op |-> "pass",
                  edge |-> IF box.currentBuzzerPattern = BUZZER_SOS
                              /\ box'.currentBuzzerPattern # BUZZER_SOS
                           THEN "ended" ELSE "none"]
        /\ UNCHANGED <<rev, buttonVars, pairVars>>

NextSos ==
    \/ TriggerSos
    \/ \E pattern \in {BUZZER_SINGLE, BUZZER_SOS} : DemoPattern(pattern)
    \/ BuzzerPass

SpecSos == InitSos /\ [][NextSos]_vars

\* ------------------------------------------------------------------
\* The Loop pattern, triggered by a claim transition and never as a demo
\* ------------------------------------------------------------------
\* A claim transition with the Loop preset: triggerBuzzerPattern(BUZZER_LOOP)
TriggerLoop ==
    /\ box' = triggerBuzzerPattern(Fresh(box), BUZZER_LOOP)
    /\ ev' = [op |-> "trigger", edge |-> "none"]
    /\ UNCHANGED <<rev, buttonVars, pairVars>>

NextAlarm ==
    \/ TriggerLoop
    \/ DemoPattern(BUZZER_SINGLE)
    \/ BuzzerPass

SpecAlarm == InitSos /\ [][NextAlarm]_vars

\* ------------------------------------------------------------------
\* The Chirp pattern, followed in steps of 10
\* ------------------------------------------------------------------
ChirpStep == 10

\* Where the history clock sinceTrigger stops here
ChirpCap == 600

\* A claim transition with the Chirp preset: triggerBuzzerPattern(BUZZER_CHIRP)
TriggerChirp ==
    /\ box' = triggerBuzzerPattern(Fresh(box), BUZZER_CHIRP)
    /\ ev' = [op |-> "trigger", edge |-> "none"]
    /\ UNCHANGED <<rev, buttonVars, pairVars>>

\* ChirpStep passes and updateBuzzerAlarm runs; ev keeps whether the pass
\* started a tone and whether the demo timeout fired in it
ChirpPass ==
    LET c == elapseBuzzer(Fresh(box), ChirpStep)
        d == [c EXCEPT !.sinceTrigger = Min(@ + ChirpStep, ChirpCap)]
    IN  /\ box' = updateBuzzerAlarm(d)
        /\ ev' = [op |-> "pass",
                  edge |-> IF box'.buzzerStep = box.buzzerStep + 1
                           THEN "tone" ELSE "none",
                  cut |-> (box.buzzerDemo /\ ~box'.buzzerDemo)]
        /\ UNCHANGED <<rev, buttonVars, pairVars>>

NextChirp ==
    \/ TriggerChirp
    \/ DemoPattern(BUZZER_SINGLE)
    \/ ChirpPass

SpecChirp == InitSos /\ [][NextChirp]_vars

\* ------------------------------------------------------------------
\* Demo playback from the menu, with no other trigger: sinceTrigger is the
\* time since the last demo began
\* ------------------------------------------------------------------
\* Where the history clock sinceTrigger stops here
DemoCap == 5200

DemoPatterns == {BUZZER_SINGLE, BUZZER_LOOP, BUZZER_SOS}

\* SosStep passes and updateBuzzerAlarm runs
DemoPass ==
    LET c == elapseBuzzer(Fresh(box), SosStep)
        d == [c EXCEPT !.sinceTrigger = Min(@ + SosStep, DemoCap)]
    IN  /\ box' = updateBuzzerAlarm(d)
        /\ ev' = [op |-> "pass", edge |-> "none",
                  cut |-> (box.buzzerDemo /\ ~box'.buzzerDemo)]
        /\ UNCHANGED <<rev, buttonVars, pairVars>>

NextDemo ==
    \/ \E pattern \in DemoPatterns : DemoPattern(pattern)
    \/ DemoPass

SpecDemo == InitSos /\ [][NextDemo]_vars

\* ------------------------------------------------------------------
\* The percentage setters and the adjust callbacks that call them
\* ------------------------------------------------------------------
\* Arguments the percentage setters are called with
PercentArgs == {0 - 1000, 0 - 1, 0, 55, 100, 101, 1000}

InitSetters ==
    /\ rev \in Revisions
    /\ \E store \in Stores :
           box = Fresh(setup(Declared(MICHAEL, LOW, LOW, store)))
    /\ ev = [op |-> "boot", edge |-> "none", arg |-> 0]
    /\ ButtonAtBoot
    /\ PairUnused

SetRGBBrightness(percent) ==
    /\ box' = setRGBBrightness(Fresh(box), percent)
    /\ ev' = [op |-> "setRGBBrightness", edge |-> "none", arg |-> percent]
    /\ UNCHANGED <<rev, buttonVars, pairVars>>

SetBuzzerVolume(percent) ==
    /\ rev = "softstart"
    /\ box' = setBuzzerVolume(Fresh(box), percent)
    /\ ev' = [op |-> "setBuzzerVolume", edge |-> "none", arg |-> percent]
    /\ UNCHANGED <<rev, buttonVars, pairVars>>

AdjustRGBBrightness ==
    /\ box' = adjustRGBBrightness(Fresh(box))
    /\ ev' = [op |-> "adjust", edge |-> "none", arg |-> 0]
    /\ UNCHANGED <<rev, buttonVars, pairVars>>

AdjustBuzzerVolume ==
    /\ rev = "softstart"
    /\ box' = adjustBuzzerVolume(Fresh(box))
    /\ ev' = [op |-> "adjust", edge |-> "none", arg |-> 0]
    /\ UNCHANGED <<rev, buttonVars, pairVars>>

AdjustMotorSpeed ==
    /\ box' = adjustMotorSpeed(Fresh(box))
    /\ ev' = [op |-> "adjust", edge |-> "none", arg |-> 0]
    /\ UNCHANGED <<rev, buttonVars, pairVars>>

NextSetters ==
    \/ \E percent \in PercentArgs : SetRGBBrightness(percent)
    \/ \E percent \in PercentArgs : SetBuzzerVolume(percent)
    \/ \E percent \in PercentArgs : SetMotorSpeed(percent)
    \/ AdjustRGBBrightness
    \/ AdjustBuzzerVolume
    \/ AdjustMotorSpeed

SpecSetters == InitSetters /\ [][NextSetters]_vars

\* ------------------------------------------------------------------
\* The Breathing animation: the inactive preset is RGB_BREATHING, the
\* active one a solid colour
\* ------------------------------------------------------------------
AnimSteps == {10, 25}

BrightnessArgs == {55, 100}

InitBreath ==
    /\ rev \in Revisions
    /\ box = Fresh(setup(Declared(MICHAEL, LOW, LOW, PartialStore)))
    /\ ev = [op |-> "setup", edge |-> "none"]
    /\ ButtonAtBoot
    /\ PairUnused

\* updateAnimations from loop(); ev keeps whether a frame was drawn
UpdateAnimations ==
    /\ box.currentRGBMode # RGB_RAINBOW
    /\ box' = updateAnimations(Fresh(box))
    /\ ev' = [op |-> "anim",
              edge |-> IF box.currentRGBMode = RGB_BREATHING
                          /\ box.sinceRGBAnimation > RGB_UPDATE_INTERVAL
                       THEN "frame" ELSE "none"]
    /\ UNCHANGED <<rev, buttonVars, pairVars>>

TickAnim(dt) ==
    /\ box' = [Fresh(box) EXCEPT
                  !.sinceRGBAnimation = Min(@ + dt, RGB_UPDATE_INTERVAL + 1)]
    /\ ev' = [op |-> "tick", edge |-> "none"]
    /\ UNCHANGED <<rev, buttonVars, pairVars>>

NextBreath ==
    \/ FlipSwitch
    \/ HandleSwitchDetection
    \/ \E percent \in BrightnessArgs : SetRGBBrightness(percent)
    \/ UpdateAnimations
    \/ \E dt \in AnimSteps : TickAnim(dt)

SpecBreath == InitBreath /\ [][NextBreath]_vars

\* ------------------------------------------------------------------
\* The motor under switch, limit, claim and speed changes
\* ------------------------------------------------------------------
\* Speeds the menu or the cloud configures
MotorSpeedArgs == {0, 1, 50, 100}

InitMotor ==
    /\ rev \in Revisions
    /\ \E sw \in BOOLEAN, lim \in BOOLEAN :
          box = Fresh(setup(Declared(MICHAEL, sw, lim, FullStore)))
    /\ ev = [op |-> "setup", edge |-> "none"]
    /\ ButtonAtBoot
    /\ PairUnused

\* handleSwitchDetection; ev also keeps whether a soft-start was in progress
\* when the call was made and since when
HandleSwitchDetectionTimed ==
    /\ box' = handleSwitchDetection(Fresh(box))
    /\ ev' = [op |-> "switch", edge |-> Edge(box),
              starting |-> box.motorIsStarting,
              since |-> box.sinceMotorStartTime]
    /\ UNCHANGED <<rev, buttonVars, pairVars>>

NextMotor ==
    \/ FlipSwitch
    \/ FlipLimit
    \/ \E id \in {MICHAEL, TREVOR} : RemoteUpdate(id)
    \/ HandleSwitchDetectionTimed
    \/ \E dt \in MotorSteps : TickMotor(dt)
    \/ \E percent \in MotorSpeedArgs : SetMotorSpeed(percent)

SpecMotor == InitMotor /\ [][NextMotor]_vars

\* ------------------------------------------------------------------
\* The motor part of one pass of loop()
\* ------------------------------------------------------------------
\* Useless_Boxes.cpp: handleSwitchDetection, then updateMotorPWM every
\* MOTOR_UPDATE_INTERVAL
loop_latest(b) ==
    LET b1 == handleSwitchDetection(b)
    IN  IF b1.sinceMotorUpdate >= MOTOR_UPDATE_INTERVAL
        THEN updateMotorPWM_latest([b1 EXCEPT !.sinceMotorUpdate = 0])
        ELSE b1

\* part_000: updateMotorPWM, then handleSwitchDetection every
\* MOTOR_UPDATE_INTERVAL
loop_softstart(b) ==
    LET b1 == updateMotorPWM_softstart(b)
    IN  IF b1.sinceMotorUpdate >= MOTOR_UPDATE_INTERVAL
        THEN handleSwitchDetection([b1 EXCEPT !.sinceMotorUpdate = 0])
        ELSE b1

\* Whether updateMotorPWM gets to write the enable pin in the pass that
\* starts from b, and whether handleSwitchDetection is called in it
pwmRuns(b) ==
    IF rev = "latest" THEN b.sinceMotorUpdate >= MOTOR_UPDATE_INTERVAL
                      ELSE b.sincePWMUpdate >= MOTOR_PWM_UPDATE_INTERVAL

sampleRuns(b) == rev = "latest" \/ b.sinceMotorUpdate >= MOTOR_UPDATE_INTERVAL

\* The level updateMotorPWM leaves on the enable pin in that pass
pwmLevel(b) ==
    IF rev = "latest" THEN loop_latest(b).EN1
                      ELSE updateMotorPWM_softstart(b).EN1

\* Time between two passes that the clocks of the motor code are followed
\* with
LoopSteps == {250, 1000}

\* Speeds configured while the loop runs (the declared speed is 100)
LoopSpeedArgs == {0, 50}

InitLoop ==
    /\ rev \in Revisions
    /\ \E sw \in BOOLEAN, lim \in BOOLEAN :
          box = Fresh(setup(Declared(MICHAEL, sw, lim, EmptyStore)))
    /\ ev = [op |-> "setup", edge |-> "none"]
    /\ ButtonAtBoot
    /\ PairUnused

\* One pass; ev keeps what the pass did: pwm, whether updateMotorPWM wrote
\* the enable pin, en, the level it wrote, sampled, whether
\* handleSwitchDetection was called, and since, the time since the last
\* soft-start began when the pass was made
LoopPass ==
    /\ box' = IF rev = "latest" THEN loop_latest(Fresh(box))
                                ELSE loop_softstart(Fresh(box))
    /\ ev' = [op |-> "loop", edge |-> Edge(box),
              pwm |-> pwmRuns(box), en |-> pwmLevel(Fresh(box)),
              sampled |-> sampleRuns(box),
              since |-> box.sinceMotorStartTime]
    /\ UNCHANGED <<rev, buttonVars, pairVars>>

TickLoop(dt) ==
    /\ box' = elapseLoop(Fresh(box), dt)
    /\ ev' = [op |-> "tick", edge |-> "none"]
    /\ UNCHANGED <<rev, buttonVars, pairVars>>

NextLoop ==
    \/ FlipSwitch
    \/ FlipLimit
    \/ RemoteUpdate(TREVOR)
    \/ \E percent \in LoopSpeedArgs : SetMotorSpeed(percent)
    \/ LoopPass
    \/ \E dt \in LoopSteps : TickLoop(dt)

SpecLoop == InitLoop /\ [][NextLoop]_vars

\* ------------------------------------------------------------------
\* Raw levels of the switch and the limit switch over time
\* ------------------------------------------------------------------
RawSteps == {10, 40}

\* Time passes while the raw levels stay as they are
TickRaw(dt) ==
    /\ box' = [Fresh(box) EXCEPT !.sinceRaw = Min(@ + dt, DEBOUNCE_TIME)]
    /\ ev' = [op |-> "tick", edge |-> "none"]
    /\ UNCHANGED <<rev, buttonVars, pairVars>>

NextRaw ==
    \/ FlipSwitch
    \/ FlipLimit
    \/ HandleSwitchDetection
    \/ \E dt \in RawSteps : TickRaw(dt)

SpecRaw == Init /\ [][NextRaw]_vars

\* ------------------------------------------------------------------
\* Presets outside the enumerations
\* ------------------------------------------------------------------
\* Arguments the preset setters are called with
RGBArgs == {RGB_SOLID_RED, RGB_MODE_COUNT, 0 - 1}

BuzzerArgs == {BUZZER_SINGLE, BUZZER_PATTERN_COUNT}

InitEnums ==
    /\ rev \in Revisions
    /\ \E store \in {FullStore, EnumStore} :
           box = Fresh(setup(Declared(MICHAEL, LOW, LOW, store)))
    /\ ev = [op |-> "setup", edge |-> "none"]
    /\ ButtonAtBoot
    /\ PairUnused

SetActiveRGBSetting(mode) ==
    /\ box' = setActiveRGBSetting(Fresh(box), mode)
    /\ ev' = [op |-> "setter", edge |-> "none"]
    /\ UNCHANGED <<rev, buttonVars, pairVars>>

SetInactiveBuzzerSetting(pattern) ==
    /\ box' = setInactiveBuzzerSetting(Fresh(box), pattern)
    /\ ev' = [op |-> "setter", edge |-> "none"]
    /\ UNCHANGED <<rev, buttonVars, pairVars>>

NextEnums ==
    \/ \E mode \in RGBArgs : SetActiveRGBSetting(mode)
    \/ \E pattern \in BuzzerArgs : SetInactiveBuzzerSetting(pattern)
    \/ FlipSwitch
    \/ \E id \in {TREVOR, NONE} : RemoteUpdate(id)
    \/ HandleSwitchDetection
    \/ UpdateBuzzerAlarm
    \/ \E dt \in BuzzerSteps : Tick(dt)

SpecEnums == InitEnums /\ [][NextEnums]_vars

\* ------------------------------------------------------------------
\* The settings menu driven by press counts
\* ------------------------------------------------------------------
\* Presses followed; a run ends with a reboot (boots is history: the number
\* of reboots so far)
MaxMenuPresses == 8

InitMenu ==
    /\ rev \in Revisions
    /\ \E store \in Stores :
           box = Fresh(setup(Declared(MICHAEL, LOW, LOW, store)))
    /\ ev = [op |-> "boot", edge |-> "none"]
    /\ ButtonAtBoot
    /\ PairUnused

\* handleSettingsButton has counted a short press
ShortPressed ==
    /\ box.boots = 0
    /\ shortPressCount + longPressCount < MaxMenuPresses
    /\ shortPressCount' = shortPressCount + 1
    /\ UNCHANGED <<rev, boxVars, pairVars, buttonPin, settingsButtonState,
                   lastSettingsButtonState, sinceLastDebounceTime,
                   sincePressedTime, longPressActive, longPressCount, press>>

\* handleSettingsButton has counted a long press
LongPressed ==
    /\ box.boots = 0
    /\ shortPressCount + longPressCount < MaxMenuPresses
    /\ longPressCount' = longPressCount + 1
    /\ UNCHANGED <<rev, boxVars, pairVars, buttonPin, settingsButtonState,
                   lastSettingsButtonState, sinceLastDebounceTime,
                   sincePressedTime, longPressActive, shortPressCount, press>>

\* One call of handleSerialMenu; timedOut: the last handled press is more
\* than MENU_TIMEOUT_MS ago.  arg records whether the call took the timeout
\* branch of part_000, idle whether it was made that long after the last
\* press.
HandleSerialMenu(timedOut) ==
    /\ box' = handleSerialMenu(Fresh(box), shortPressCount, longPressCount, timedOut)
    /\ ev' = [op |-> "menu", edge |-> "none",
              arg |-> (rev # "latest" /\ timedOut
                         /\ (box.menuIndex # 0 \/ box.inSubMenu)),
              idle |-> timedOut]
    /\ UNCHANGED <<rev, buttonVars, pairVars>>

\* Power is cycled: the globals start as declared, the store is kept, and
\* setup() runs
Reboot ==
    /\ box.boots = 0
    /\ box' = [Fresh(setup(Declared(box.name, box.pinSwitch, box.pinLimit,
                                    box.prefs)))
                  EXCEPT !.boots = box.boots + 1]
    /\ ev' = [op |-> "boot", edge |-> "none"]
    /\ shortPressCount' = 0
    /\ longPressCount' = 0
    /\ UNCHANGED <<rev, pairVars, buttonPin, settingsButtonState,
                   lastSettingsButtonState, sinceLastDebounceTime,
                   sincePressedTime, longPressActive, press>>

NextMenu ==
    \/ ShortPressed
    \/ LongPressed
    \/ \E timedOut \in BOOLEAN : HandleSerialMenu(timedOut)
    \/ Reboot

SpecMenu == InitMenu /\ [][NextMenu]_vars

\* ------------------------------------------------------------------
\* The button and the menu in the passes of loop(): handleSettingsButton,
\* then handleSerialMenu
\* ------------------------------------------------------------------
\* Time between two passes: just past the debounce window, or just past the
\* long-press time
PressSteps == {DEBOUNCE_TIME + 1, LONG_PRESS_TIME + 1}

InitPress ==
    /\ rev \in Revisions
    /\ box = Fresh(setup(Declared(MICHAEL, LOW, LOW, EmptyStore)))
    /\ ev = [op |-> "setup", edge |-> "none", arg |-> FALSE]
    /\ ButtonAtBoot
    /\ PairUnused

\* One pass; timedOut: the last handled press is more than MENU_TIMEOUT_MS
\* ago.  edge records what the pass counted, arg whether the menu call took
\* the timeout branch of part_000.
PressPass(timedOut) ==
    /\ handleSettingsButton
    /\ box' = handleSerialMenu(Fresh(box), shortPressCount', longPressCount',
                               timedOut)
    /\ ev' = [op |-> "pass",
              edge |-> IF shortPressCount' # shortPressCount THEN "short"
                       ELSE IF longPressCount' # longPressCount THEN "long"
                       ELSE "none",
              arg |-> (rev # "latest" /\ timedOut
                         /\ (box.menuIndex # 0 \/ box.inSubMenu))]
    /\ UNCHANGED <<rev, pairVars, buttonPin>>

\* The user presses or lets go of the button, or a contact bounces
PressFlip ==
    /\ buttonPin = HIGH => shortPressCount + longPressCount < MaxPresses
    /\ buttonPin' = ~buttonPin
    /\ box' = Fresh(box)
    /\ ev' = [op |-> "flip", edge |-> "none", arg |-> FALSE]
    /\ UNCHANGED <<rev, pairVars, settingsButtonState,
                   lastSettingsButtonState, sinceLastDebounceTime,
                   sincePressedTime, longPressActive, shortPressCount,
                   longPressCount, press>>

PressTick(dt) ==
    /\ elapseButton(dt)
    /\ box' = Fresh(box)
    /\ ev' = [op |-> "tick", edge |-> "none", arg |-> FALSE]
    /\ UNCHANGED <<rev, pairVars, buttonPin, settingsButtonState,
                   lastSettingsButtonState, longPressActive, shortPressCount,
                   longPressCount>>

NextPress ==
    \/ PressFlip
    \/ \E timedOut \in BOOLEAN : PressPass(timedOut)
    \/ \E dt \in PressSteps : PressTick(dt)

SpecPress == InitPress /\ [][NextPress]_vars

Believes(b) == boxes[b].active_box = b

BothBelieve == \A b \in Boxes : Believes(b)

NeitherBelieves == \A b \in Boxes : ~Believes(b)

\* The last write of box b has not reached the peer yet, and it is its claim
ClaimInTransit(b) ==
    /\ toBox[Peer(b)] # <<>>
    /\ toBox[Peer(b)][Len(toBox[Peer(b)])] = b

\* C8 as stated: with nothing in flight at most one view names itself, and
\* both boxes or neither box believing happens only while an update is in
\* transit.
C8_Original ==
    /\ Quiet => ~BothBelieve
    /\ (BothBelieve \/ NeitherBelieves) => ~Quiet

\* C8: both boxes believe they hold the claim only while the claim of one of
\* them is still in transit to the other; with nothing in flight at most one
\* view names itself.
C8_AtMostOneWhenQuiet ==
    BothBelieve => \E b \in Boxes : ClaimInTransit(b)

\* Both boxes claimed at about the same time
C8_Witness ==
    /\ BothBelieve
    /\ \A b \in Boxes : ClaimInTransit(b)

\* ------------------------------------------------------------------
\* Properties of the switch handler and the motor decision
\* ------------------------------------------------------------------
\* A state reached by a handleSwitchDetection call that recomputed the
\* motor direction from the inputs it sampled
Recomputed == ev.op = "switch" /\ box.recomp > 0

C2_ClaimOnSwitchOn ==
    /\ (ev.op = "switch" /\ ev.edge = "on") =>
          /\ box.active_box = box.name
          /\ box.currentRGBMode = box.activeRGBSetting
          /\ box.trig = <<box.activeBuzzerSetting>>
          /\ box.currentBuzzerPattern = box.activeBuzzerSetting
    /\ (ev.op = "switch" /\ ev.edge = "none") => box.trig = <<>>

C2_Witness ==
    /\ ev.op = "switch" /\ ev.edge = "on"
    /\ box.active_box = box.name
    /\ box.activeBuzzerSetting = BUZZER_SOS
    /\ box.trig = <<BUZZER_SOS>>

\* The step is a handleSwitchDetection call that sees the given switch edge
SwitchEdgeStep(e) == ev'.op = "switch" /\ ev'.edge = e

\* The direction the table gives with the claim held locally or the
\* switch off
ByLimit(limitState) == IF limitState = LOW THEN REVERSE ELSE STOPPED

PeerClaimsStep ==
    /\ ev'.op = "remote"
    /\ box'.active_box = Peer(box.name)
    /\ box.pinSwitch = HIGH /\ box.switch_forward = HIGH

\* The step is a recomputation with the switch on (no edge) and the claim
\* held by the peer
RecomputeUnderPeerStep ==
    /\ ev'.op = "switch" /\ box'.recomp > 0
    /\ box.active_box = Peer(box.name)
    /\ box.pinSwitch = HIGH /\ box.switch_forward = HIGH

C6_SilentRelease ==
    [][ (SwitchEdgeStep("off") /\ box.active_box = box.name) =>
            /\ box'.active_box = NONE
            /\ box'.currentRGBMode = box.inactiveRGBSetting
            /\ box'.currentBuzzerPattern = box.currentBuzzerPattern
            /\ box'.buzzerStep = box.buzzerStep
            /\ box'.buzzerState = box.buzzerState
            /\ box'.buzzerDemo = box.buzzerDemo
            /\ box'.trig = <<>> ]_vars

C6_Witness ==
    /\ rev = "latest"
    /\ ev.op = "switch" /\ ev.edge = "off"
    /\ box.active_box = NONE
    /\ box.trig = <<>>
    /\ box.buzzerDemo
    /\ box.currentBuzzerPattern = BUZZER_SOS
    /\ box.buzzerStep = 2

\* What C7 says of a step
C7_Step ==
    (SwitchEdgeStep("off") /\ box.active_box # box.name) =>
        /\ box'.currentRGBMode = box.inactiveRGBSetting
        /\ box'.trig = <<box.inactiveBuzzerSetting>>
        /\ box'.active_box = box.active_box

\* C7 as stated, for both revisions
C7_Original == [][C7_Step]_vars

\* C7 (amended): in revision "latest" a handler call that sees the switch go
\* off while the claim slot does not name the local box sets the RGB mode to
\* the inactive preset, triggers the inactive pattern exactly once and
\* leaves the claim slot alone.  In revision "softstart" such a call
\* triggers no pattern and changes neither the RGB mode nor the claim slot.
C7_OffWhileNotClaimed ==
    [][ /\ rev = "latest" => C7_Step
        /\ (rev = "softstart" /\ SwitchEdgeStep("off") /\ box.active_box # box.name) =>
              /\ box'.trig = <<>>
              /\ box'.currentRGBMode = box.currentRGBMode
              /\ box'.currentBuzzerPattern = box.currentBuzzerPattern
              /\ box'.active_box = box.active_box ]_vars

C7_Witness ==
    /\ rev = "latest"
    /\ ev.op = "switch" /\ ev.edge = "off"
    /\ box.active_box = Peer(box.name)
    /\ box.inactiveBuzzerSetting = BUZZER_SINGLE
    /\ box.trig = <<BUZZER_SINGLE>>
    /\ box.currentRGBMode = box.inactiveRGBSetting

\* ------------------------------------------------------------------
\* Properties of the settings button
\* ------------------------------------------------------------------
\* C9: as long as no run of samples of the raw level away from the debounced
\* level has lasted the debounce window, the debounced level has not changed
\* (it is still HIGH, as at boot) and both press counters are unchanged.
C9_GlitchAbsorption ==
    press.glitchOnly =>
        /\ settingsButtonState = HIGH
        /\ shortPressCount = 0
        /\ longPressCount = 0

\* Two bounces have been sampled, the second one for 25 so far
C9_Witness ==
    /\ press.glitchOnly
    /\ press.runs = 2
    /\ press.away /\ press.awayFor = 25
    /\ buttonPin = LOW

\* C10: when the debounced level goes back to HIGH after having been LOW for
\* less than LONG_PRESS_TIME, shortPressCount is one more than it was when
\* the level went LOW and longPressCount is what it was then.
C10_ShortPress ==
    [][ (settingsButtonState = LOW /\ settingsButtonState' = HIGH
            /\ press.heldFor < LONG_PRESS_TIME) =>
            /\ shortPressCount' = press.shortAtPress + 1
            /\ shortPressCount' = shortPressCount + 1
            /\ longPressCount' = press.longAtPress
            /\ longPressCount' = longPressCount ]_vars

\* A second press, of 975, has been counted as short after a long one
C10_Witness ==
    /\ settingsButtonState = HIGH
    /\ press.heldFor = 975
    /\ press.longAtPress = 1
    /\ longPressCount = 1
    /\ shortPressCount = press.shortAtPress + 1

\* C11 as stated: when the debounced level goes back to HIGH after having
\* been LOW for LONG_PRESS_TIME or longer, longPressCount is one more than it
\* was when the level went LOW and shortPressCount is what it was then; and
\* while the level stays LOW longPressCount is never more than one above
\* what it was at the press.
C11_LongPress ==
    [][ /\ (settingsButtonState = LOW /\ settingsButtonState' = HIGH
               /\ press.heldFor >= LONG_PRESS_TIME) =>
               /\ longPressCount' = press.longAtPress + 1
               /\ shortPressCount' = press.shortAtPress
        /\ settingsButtonState' = LOW =>
               longPressCount' <= press'.longAtPress + 1 ]_vars

\* A press held for exactly LONG_PRESS_TIME has been released and neither
\* counter has moved
C11_Witness ==
    /\ settingsButtonState = HIGH
    /\ press.heldFor = LONG_PRESS_TIME
    /\ longPressCount = press.longAtPress
    /\ shortPressCount = press.shortAtPress
    /\ ~longPressActive

\* ------------------------------------------------------------------
\* Properties of the speed mapping
\* ------------------------------------------------------------------
\* C12: whenever the configured speed is replaced by one that is not lower,
\* the duty it is mapped to (no soft-start in progress) is not lower either,
\* and the duty of every configured speed is within 0..100.
C12_DutyMonotonic ==
    [][ /\ dutyPercent(box') \in 0..100
        /\ box.motorSpeed <= box'.motorSpeed =>
               dutyPercent(box) <= dutyPercent(box') ]_vars

\* Speed 21 in the revision with the attenuated low range: duty 3
C12_Witness ==
    /\ rev = "softstart"
    /\ ev.op = "setMotorSpeed"
    /\ box.motorSpeed = 21
    /\ dutyPercent(box) = 3

\* ------------------------------------------------------------------
\* Properties of the SOS pattern
\* ------------------------------------------------------------------
RECURSIVE SumSeq(_)
SumSeq(q) == IF q = <<>> THEN 0 ELSE Head(q) + SumSeq(Tail(q))

\* The sum of the step table, a gap of 150 with each of the steps and the
\* gap of 150 that closes the pattern
SosTotal == SumSeq(sosDurations) + (Len(sosDurations) + 1) * 150

\* C13 as stated: with updateBuzzerAlarm called at every time unit, the SOS
\* pattern is left by updateBuzzerAlarm only for Off with step 0, exactly
\* SosTotal after it was triggered, and it is not playing any more after
\* that time.
C13_SosDuration ==
    [][ /\ (ev'.op = "pass" /\ ev'.edge = "ended") =>
               /\ box'.currentBuzzerPattern = BUZZER_OFF
               /\ box'.buzzerStep = 0
               /\ box'.sinceTrigger = SosTotal
        /\ box'.currentBuzzerPattern = BUZZER_SOS =>
               box'.sinceTrigger < SosTotal ]_vars

\* An SOS pattern has played to its end
C13_Witness ==
    /\ ev.op = "pass" /\ ev.edge = "ended"
    /\ box.currentBuzzerPattern = BUZZER_OFF
    /\ box.buzzerStep = 0
    /\ box.sinceTrigger = SosTotal

\* ------------------------------------------------------------------
\* Properties of the settings menu and the preset setters
\* ------------------------------------------------------------------
\* C14 as stated: no handler call spends time in delay(); in particular a
\* handleSerialMenu call that handles a short or a long press returns without
\* having waited.
C14_NoBlocking == box.blocked = 0

\* The menu of revision "latest" has raised the brightness from 50 to 60 and
\* beeped six times: 1200 spent in delay()
C14_Witness ==
    /\ rev = "latest"
    /\ ev.op = "menu"
    /\ box.inSubMenu /\ menuItems[box.menuIndex + 1] = "RGB Brightness"
    /\ box.rgb_brightness_percentage = 60
    /\ box.blocked = 1200

Clamped(x) == IF x < 0 THEN 0 ELSE IF x > 100 THEN 100 ELSE x

PercentKeys == {"rgb_brightness", "buzzer_vol", "motor_speed"}

PercentagesInRange ==
    /\ box.rgb_brightness_percentage \in 0..100
    /\ box.buzzer_volume_percentage \in 0..100
    /\ box.motorSpeed \in 0..100
    /\ \A k \in PercentKeys \cap DOMAIN box.prefs : box.prefs[k] \in 0..100

\* C15: the three percentages, in memory and in the store, are within
\* 0..100 in every state, and a call of a percentage setter leaves its
\* argument clamped to 0..100 in memory and under its key in the store.
C15_PercentClamped ==
    /\ []PercentagesInRange
    /\ [][ /\ ev'.op = "setRGBBrightness" =>
                 /\ box'.rgb_brightness_percentage = Clamped(ev'.arg)
                 /\ box'.prefs["rgb_brightness"] = Clamped(ev'.arg)
           /\ ev'.op = "setBuzzerVolume" =>
                 /\ box'.buzzer_volume_percentage = Clamped(ev'.arg)
                 /\ box'.prefs["buzzer_vol"] = Clamped(ev'.arg)
           /\ ev'.op = "setMotorSpeed" =>
                 /\ box'.motorSpeed = Clamped(ev'.arg)
                 /\ box'.prefs["motor_speed"] = Clamped(ev'.arg) ]_vars

\* setRGBBrightness(101) has stored 100
C15_Witness ==
    /\ ev.op = "setRGBBrightness" /\ ev.arg = 101
    /\ box.rgb_brightness_percentage = 100
    /\ box.prefs["rgb_brightness"] = 100

RGBModes == 0 .. (RGB_MODE_COUNT - 1)

BuzzerPatterns == 0 .. (BUZZER_PATTERN_COUNT - 1)

\* What setRGB(0, 0, 0) writes (common anode)
RGBOutOff == <<255, 255, 255>>

\* C16 as stated: while the current RGB mode is outside the enumeration the
\* three channels are off, and while the current buzzer pattern is outside
\* its enumeration the buzzer is silent.
C16_UnknownAsOff ==
    /\ box.currentRGBMode \notin RGBModes => box.rgbOut = RGBOutOff
    /\ box.currentBuzzerPattern \notin BuzzerPatterns => box.tone = 0

\* The switch handler has applied an inactive preset outside the enumeration
\* and the LED still shows the white of the active preset
C16_Witness ==
    /\ ev.op = "switch" /\ ev.edge = "off"
    /\ box.currentRGBMode = RGB_MODE_COUNT + 2
    /\ box.rgbOut = <<0, 0, 0>>

\* The six presets and the keys their setters write
PresetKeys ==
    {"active_rgb", "inactive_rgb", "rgb_brightness", "active_buzzer",
     "inactive_buzzer", "motor_speed"}

Preset(b, key) ==
    CASE key = "active_rgb"      -> b.activeRGBSetting
      [] key = "inactive_rgb"    -> b.inactiveRGBSetting
      [] key = "rgb_brightness"  -> b.rgb_brightness_percentage
      [] key = "active_buzzer"   -> b.activeBuzzerSetting
      [] key = "inactive_buzzer" -> b.inactiveBuzzerSetting
      [] key = "motor_speed"     -> b.motorSpeed

StoreMatchesMemory ==
    \A key \in PresetKeys :
        key \in DOMAIN box.prefs => box.prefs[key] = Preset(box, key)

\* C17: after any sequence of menu operations every value the store holds
\* under a preset's key equals the preset in memory, and setup() after a
\* power cycle restores every preset that was in effect.
C17_StoreMatchesMemory ==
    /\ []StoreMatchesMemory
    /\ [][box'.boots = box.boots + 1 =>
             \A key \in PresetKeys : Preset(box', key) = Preset(box, key)]_vars

\* A power cycle after the menu changed the active RGB preset to a value
\* that is neither the default nor in any initial store
C17_Witness ==
    /\ box.boots = 1
    /\ box.activeRGBSetting = RGB_SOLID_GREEN
    /\ box.motorSpeed = 10
    /\ box.prefs["active_rgb"] = RGB_SOLID_GREEN

\* C18 as stated: when handleSwitchDetection has returned (nothing later in
\* the loop pass changes direction, sampled switch or claim slot), a motor
\* direction of Forward implies that the sampled switch is on and that the
\* claim slot does not name the local box.
C18_ForwardOnlyUnclaimed ==
    (ev.op = "switch" /\ Direction(box) = FORWARD)
        => (box.switch_forward = HIGH /\ box.active_box # box.name)

\* A remote update has just set the claim slot to the local identity while
\* the motor runs Forward with the switch on
C18_Witness ==
    /\ ev.op = "remote"
    /\ box.active_box = box.name
    /\ Direction(box) = FORWARD
    /\ box.switch_forward = HIGH /\ box.pinSwitch = HIGH

\* The call of handleSwitchDetection on b finds a request to recompute: the
\* flag is set, or it samples a switch edge or a limit edge
RecomputeDue(b) ==
    \/ b.stateChanged
    \/ b.pinSwitch # b.switch_forward
    \/ b.pinLimit # b.limit_pressed

\* C19 as stated: every remote update sets the state-changed flag (switch
\* and limit edges set it inside handleSwitchDetection); a set flag stays
\* set until handleSwitchDetection runs; that call recomputes the direction
\* exactly once, from the pin and claim values current at the call, and
\* returns with the flag clear; with the flag clear and no edge nothing is
\* recomputed, and nothing else recomputes.
C19_FlagProtocol ==
    [][/\ ev'.op = "remote" => box'.stateChanged
       /\ (ev'.op # "switch" /\ box.stateChanged) => box'.stateChanged
       /\ ev'.op # "switch" => box'.recomp = 0
       /\ ev'.op = "switch" =>
             /\ ~box'.stateChanged
             /\ box'.recomp = IF RecomputeDue(box) THEN 1 ELSE 0
             /\ RecomputeDue(box) =>
                   Direction(box') =
                       IF box.pinSwitch = HIGH /\ box'.active_box # box.name
                       THEN FORWARD
                       ELSE IF box.pinLimit = LOW THEN REVERSE ELSE STOPPED]_vars

\* handleSwitchDetection has recomputed once, without any edge, because a
\* remote update that named the local box had set the flag
C19_Witness ==
    /\ ev.op = "switch" /\ ev.edge = "none"
    /\ box.recomp = 1 /\ ~box.stateChanged
    /\ box.active_box = box.name /\ box.switch_forward = HIGH
    /\ Direction(box) = REVERSE

\* The step is a remote update whose identity is not the local box, received
\* while the switch pin reads on
OtherClaimsStep ==
    /\ ev'.op = "remote"
    /\ box'.active_box # box.name
    /\ box.pinSwitch = HIGH

\* C20 as stated: a remote update whose identity is not the local box,
\* received while the local switch is on, triggers the inactive buzzer
\* pattern and sets the state-changed flag, and the next
\* handleSwitchDetection recomputes the direction.
C20_Original ==
    [][ /\ OtherClaimsStep =>
              /\ box'.trig = <<box.inactiveBuzzerSetting>>
              /\ box'.currentBuzzerPattern = box.inactiveBuzzerSetting
              /\ box'.stateChanged
        /\ (ev'.op = "switch" /\ box.stateChanged) => box'.recomp = 1 ]_vars

\* C20 (amended): such an update sets the state-changed flag in both
\* revisions, and the next handleSwitchDetection recomputes the direction;
\* revision "softstart" also triggers the inactive buzzer pattern, once,
\* while revision "latest" triggers no pattern and leaves the buzzer
\* playback as it was.
C20_OtherClaimSetsFlag ==
    [][ /\ OtherClaimsStep =>
              /\ box'.stateChanged
              /\ rev = "softstart" =>
                    /\ box'.trig = <<box.inactiveBuzzerSetting>>
                    /\ box'.currentBuzzerPattern = box.inactiveBuzzerSetting
                    /\ box'.buzzerStep = 0
              /\ rev = "latest" =>
                    /\ box'.trig = <<>>
                    /\ box'.currentBuzzerPattern = box.currentBuzzerPattern
                    /\ box'.buzzerStep = box.buzzerStep
        /\ (ev'.op = "switch" /\ box.stateChanged) => box'.recomp = 1 ]_vars

\* The update has cleared the claim slot of a box that held the claim with
\* its switch on, and the inactive pattern (a real one) has been triggered
C20_Witness ==
    /\ ev.op = "remote"
    /\ box.active_box = NONE
    /\ box.pinSwitch = HIGH /\ box.switch_forward = HIGH
    /\ box.stateChanged
    /\ box.inactiveBuzzerSetting # BUZZER_OFF
    /\ box.trig = <<box.inactiveBuzzerSetting>>

\* C21 as stated, for the switch and the limit input: handleSwitchDetection
\* takes over a new level of either input (and with it changes the claim,
\* triggers a pattern or recomputes the direction) only when the raw levels
\* have been stable for the debounce window.
C21_Debounced ==
    [][ (ev'.op = "switch" /\ box'.recomp > 0
            /\ (box'.switch_forward # box.switch_forward
                  \/ box'.limit_pressed # box.limit_pressed))
          => box.sinceRaw >= DEBOUNCE_TIME ]_vars

\* The switch went on 10 ago, and the handler has claimed, triggered the
\* active pattern and recomputed the direction
C21_Witness ==
    /\ ev.op = "switch" /\ ev.edge = "on"
    /\ box.sinceRaw = 10
    /\ box.active_box = box.name
    /\ box.trig = <<box.activeBuzzerSetting>>
    /\ box.recomp = 1

\* The step is a handleSerialMenu call that finds a new short-press event
\* and no new long-press event
ShortEventStep ==
    /\ ev'.op = "menu"
    /\ shortPressCount > box.lastShortPressCount
    /\ box'.lastShortPressCount = shortPressCount
    /\ longPressCount = box.lastLongPressCount

\* What a short-press event does to the menu session and the presets when
\* the call starts from session (index, editing)
ShortEventFrom(index, editing) ==
    IF ~editing
    THEN /\ box'.menuIndex = (index + 1) % totalMenus
         /\ ~box'.inSubMenu
         /\ \A key \in PresetKeys : Preset(box', key) = Preset(box, key)
    ELSE /\ box'.menuIndex = index
         /\ box'.inSubMenu
         /\ \A key \in PresetKeys :
               Preset(box', key) =
                   Preset(onAdjust(box, menuItems[index + 1]), key)

MenuIndexInRange == box.menuIndex \in 0 .. (totalMenus - 1)

\* C22 as stated: a new short-press event while Browsing sets the index to
\* (index + 1) modulo the item count, so the index stays within the items;
\* while Editing it invokes the adjust operation of the current item and
\* leaves index and Editing state unchanged.
C22_Original ==
    /\ []MenuIndexInRange
    /\ [][ShortEventStep => ShortEventFrom(box.menuIndex, box.inSubMenu)]_vars

\* C22 (amended): as stated whenever the call does not time the menu out.
\* A call of part_000 that first takes its timeout branch handles the
\* short-press event from the main screen: the index becomes 1 and the menu
\* is Browsing, whatever the session was, and no adjust operation runs.
C22_ShortEvent ==
    /\ []MenuIndexInRange
    /\ [][ShortEventStep =>
             IF ev'.arg THEN ShortEventFrom(0, FALSE)
                        ELSE ShortEventFrom(box.menuIndex, box.inSubMenu)]_vars

\* Six single short presses in revision "latest": the index has wrapped from
\* the last item to the first
C22_Witness ==
    /\ rev = "latest"
    /\ ev.op = "menu"
    /\ box.lastShortPressCount = totalMenus
    /\ box.lastLongPressCount = 0 /\ longPressCount = 0
    /\ box.menuIndex = 0

\* The step is a handleSerialMenu call that finds a new long-press event and
\* no new short-press event
LongEventStep ==
    /\ ev'.op = "menu"
    /\ longPressCount > box.lastLongPressCount
    /\ box'.lastLongPressCount = longPressCount
    /\ shortPressCount = box.lastShortPressCount

\* What a long-press event does when the call starts from session
\* (index, editing): it toggles Editing, keeps the index, and runs the show
\* operation of the item (entering) or its confirm operation followed by the
\* redisplay (leaving); apart from the beeps of revision "latest" the box is
\* left as these operations leave it.
LongEventFrom(index, editing) ==
    LET item == menuItems[index + 1]
        c    == [Fresh(box) EXCEPT !.lastLongPressCount = longPressCount,
                                   !.menuIndex = index,
                                   !.inSubMenu = ~editing]
        d    == IF editing THEN showMenu(onConfirm(c, item)) ELSE onShow(c, item)
    IN  /\ box'.menuIndex = index
        /\ box'.inSubMenu = ~editing
        /\ [box' EXCEPT !.blocked = 0, !.tone = 0, !.toneLeft = 0]
              = [d EXCEPT !.blocked = 0, !.tone = 0, !.toneLeft = 0]

\* C23 as stated: a new long-press event while Browsing enters Editing for
\* the current item, index unchanged, and invokes its show operation; while
\* Editing it invokes the confirm operation and returns to Browsing, index
\* unchanged; no other event changes the Editing flag.
C23_Original ==
    [][/\ LongEventStep => LongEventFrom(box.menuIndex, box.inSubMenu)
       /\ box'.inSubMenu # box.inSubMenu =>
             (box'.boots # box.boots \/ box'.lastLongPressCount # box.lastLongPressCount)
      ]_vars

\* C23 (amended): as stated, except that in the revision with the
\* inactivity timeout a call that takes the timeout branch leaves Editing
\* without a long press and without the confirm operation, and a long-press
\* event handled in such a call enters Editing for the first item.
C23_LongEvent ==
    [][/\ LongEventStep =>
             IF ev'.arg THEN /\ box'.menuIndex = 0
                             /\ box'.inSubMenu
                        ELSE LongEventFrom(box.menuIndex, box.inSubMenu)
       /\ box'.inSubMenu # box.inSubMenu =>
             \/ box'.boots # box.boots
             \/ box'.lastLongPressCount # box.lastLongPressCount
             \/ (ev'.op = "menu" /\ ev'.arg /\ ~box'.inSubMenu)
      ]_vars

\* Editing of the fourth item has been confirmed by a second long press: the
\* menu is Browsing again at the same item
C23_Witness ==
    /\ ev.op = "menu" /\ ~ev.arg
    /\ box.lastLongPressCount = 2 /\ longPressCount = 2
    /\ box.lastShortPressCount = 3 /\ shortPressCount = 3
    /\ box.menuIndex = 3
    /\ ~box.inSubMenu

\* No press is waiting to be handled by the menu
NoNewPress ==
    /\ shortPressCount = box.lastShortPressCount
    /\ longPressCount = box.lastLongPressCount

\* C24: in revision "latest", a step taken while no press waits to be
\* handled (in particular a handleSerialMenu call made more than
\* MENU_TIMEOUT_MS after the last press) changes neither the selection index
\* nor the Editing flag, unless the box is restarted.
C24_NoTimeout ==
    [][(rev = "latest" /\ NoNewPress /\ box'.boots = box.boots) =>
           /\ box'.menuIndex = box.menuIndex
           /\ box'.inSubMenu = box.inSubMenu]_vars

\* Revision "latest" is editing the third item, no press is waiting, and the
\* menu has just been called long after the last press
C24_Witness ==
    /\ rev = "latest"
    /\ ev.op = "menu" /\ ev.idle
    /\ NoNewPress
    /\ box.inSubMenu
    /\ box.menuIndex = 2

\* ------------------------------------------------------------------
\* Properties of the soft-start
\* ------------------------------------------------------------------
Running == {FORWARD, REVERSE}

\* The step is a recomputation that yields a running direction different
\* from the previous direction
DirectionChangeStep ==
    /\ ev'.op = "switch" /\ box'.recomp > 0
    /\ Direction(box') \in Running
    /\ Direction(box') # Direction(box)

\* The duty (percent) the PWM update drives the enable pin with
Duty(b) ==
    IF rev = "latest" THEN (IF b.motorShouldRun THEN dutyPercent(b) ELSE 0)
                      ELSE effectiveSpeed(b)

C26_WindowEnds ==
    (ev.op = "loop" /\ ev.since >= MOTOR_SOFT_START_DURATION)
        => /\ ~box.motorIsStarting
           /\ Direction(box) \in Running => Duty(box) = dutyPercent(box)

\* Revision "softstart" runs Forward at the configured speed 50; the window
\* elapsed before this pass, no switch, limit, claim or speed change was
\* there to see, and the flag is still set: the enable pin is driven with
\* duty 100
C26_Witness ==
    /\ rev = "softstart"
    /\ ev.op = "loop" /\ ev.edge = "none" /\ box.recomp = 0
    /\ ev.pwm /\ ev.sampled
    /\ ev.since = MOTOR_SOFT_START_DURATION
    /\ Direction(box) = FORWARD
    /\ box.motorSpeed = 50
    /\ box.motorIsStarting
    /\ Duty(box) = 100 /\ box.EN1 = HIGH

\* C27: in revision "softstart", wherever a specification leaves the box
\* with direction Stopped the soft-start flag is false; in particular a
\* recomputation that yields Stopped while the window of a soft-start is
\* still open clears the flag in that same recomputation.
C27_StopCancels ==
    /\ [](Direction(box) = STOPPED => ~box.motorIsStarting)
    /\ [][(ev'.op = "switch" /\ box'.recomp > 0 /\ Direction(box') = STOPPED)
              => (~box'.motorIsStarting /\ Duty(box') = 0)]_vars

\* A soft-start began 75 ago and the recomputation that has just run decided
\* to stop
C27_Witness ==
    /\ rev = "softstart"
    /\ ev.op = "switch" /\ box.recomp = 1
    /\ ev.starting /\ ev.since = 75
    /\ Direction(box) = STOPPED
    /\ ~box.motorIsStarting
    /\ box.motor_forward = FALSE /\ box.motorShouldRunPWM = FALSE
    /\ box.EN1 = LOW /\ box.IN1 = LOW /\ box.IN2 = LOW

\* C28: after a pass of loop() in which updateMotorPWM wrote the enable pin,
\* no recomputation followed it and the direction is Forward or Reverse, the
\* pin is HIGH when the effective duty is 100, LOW when it is 0, and
\* otherwise HIGH exactly during the first duty/100 of the PWM period
C28_EnableFollowsDuty ==
    (ev.op = "loop" /\ ev.pwm /\ box.recomp = 0 /\ Direction(box) \in Running)
        => /\ Duty(box) = 100 => box.EN1 = HIGH
           /\ Duty(box) = 0 => box.EN1 = LOW
           /\ (rev = "softstart" /\ Duty(box) \notin {0, 100})
                  => (box.EN1 = HIGH
                         <=> box.cyclePosition
                                < (MOTOR_PWM_PERIOD * Duty(box)) \div 100)

\* Revision "latest", speed 100, running forward: the pass has switched the
\* enable pin off
C28_Witness ==
    /\ rev = "latest"
    /\ ev.op = "loop" /\ ev.pwm /\ box.recomp = 0
    /\ box.motorSpeed = 100 /\ Duty(box) = 100
    /\ box.motorDirection = FORWARD /\ box.motorShouldRun
    /\ box.EN1 = LOW /\ ~box.motorPWMEnabled

\* Revision "latest", speed 0: the pass has driven the enable pin high
C28_HighAtZero ==
    /\ rev = "latest"
    /\ ev.op = "loop" /\ ev.pwm /\ box.recomp = 0
    /\ box.motorSpeed = 0 /\ Duty(box) = 0
    /\ box.motorDirection \in Running
    /\ box.EN1 = HIGH
\* C29: after a pass of loop() in which updateMotorPWM wrote the enable pin,
\* the levels acted on are the raw switch and limit levels of that pass, no
\* recomputation is left owing, and the pin was written HIGH only if the
\* direction decided from them is Forward or Reverse
C29_SampledBeforeEnable ==
    (ev.op = "loop" /\ ev.pwm)
        => /\ ev.sampled
           /\ box.switch_forward = box.pinSwitch
           /\ box.limit_pressed = box.pinLimit
           /\ ~box.stateChanged
           /\ ev.en = HIGH => Direction(box) \in Running

\* Revision "softstart": the switch went off while the motor ran forward;
\* the pass wrote the enable pin HIGH and only then sampled the edge and
\* decided to stop
C29_Witness ==
    /\ rev = "softstart"
    /\ ev.op = "loop" /\ ev.pwm /\ ev.sampled
    /\ ev.edge = "off" /\ box.recomp = 1
    /\ ev.en = HIGH
    /\ box.pinLimit = HIGH
    /\ Direction(box) = STOPPED
\* C30: a pass of updateBuzzerAlarm that finds the Loop pattern playing (it
\* is never triggered as a demo here) leaves it playing; when
\* BUZZER_INTERVAL has passed since the last toggle it toggles between the
\* tone and silence, and otherwise it leaves the buzzer as it is
C30_LoopGoesOn ==
    [][(box.currentBuzzerPattern = BUZZER_LOOP /\ ev'.op = "pass")
          => /\ box'.currentBuzzerPattern = BUZZER_LOOP
             /\ IF box.sinceBuzzerLast + SosStep >= BUZZER_INTERVAL
                THEN /\ box'.buzzerState = ~box.buzzerState
                     /\ box'.tone = (IF box'.buzzerState THEN 1000 ELSE 0)
                     /\ box'.sinceBuzzerLast = 0
                ELSE /\ box'.buzzerState = box.buzzerState
                     /\ box'.tone = box.tone
                     /\ box'.sinceBuzzerLast = box.sinceBuzzerLast + SosStep]_vars

\* Revision "latest": a Loop pattern triggered by a claim transition has
\* been put to Off by a pass while its tone was on (only the Loop pattern
\* sets buzzerState), the time of an older demo having run out
C30_Witness ==
    /\ rev = "latest"
    /\ ev.op = "pass"
    /\ box.currentBuzzerPattern = BUZZER_OFF
    /\ ~box.buzzerDemo
    /\ box.sinceTrigger \in 1000 .. 3000
    /\ box.buzzerState
    /\ box.tone = 0

\* The Loop pattern still plays SosCap after its trigger, the tone on
C30_StillPlaying ==
    /\ ev.op = "pass"
    /\ box.currentBuzzerPattern = BUZZER_LOOP
    /\ box.sinceTrigger = SosCap
    /\ box.buzzerState /\ box.tone = 1000
\* The Chirp pattern as seen after a pass: its tones start gap apart, the
\* first at the first pass after the trigger, each at its frequency, and the
\* pattern does not play beyond 120 after the third start
ChirpTiming(gap) ==
    (ev.op = "pass" /\ box.currentBuzzerPattern = BUZZER_CHIRP)
        => LET t == box.sinceTrigger - ChirpStep
           IN  /\ t < 2 * gap + 120
               /\ box.buzzerStep = Min(1 + t \div gap, 3)
               /\ box.tone = chirpFreqs[box.buzzerStep]
               /\ (ev.edge = "tone") = (t \in {0, gap, 2 * gap})

C32_DemoEnds ==
    [][(rev = "latest" /\ ev'.op = "pass")
          => IF box.buzzerDemo /\ box'.sinceTrigger >= BUZZER_DEMO_DURATION
             THEN /\ box'.sinceTrigger = BUZZER_DEMO_DURATION
                  /\ box'.currentBuzzerPattern = BUZZER_OFF
                  /\ box'.buzzerStep = 0 /\ box'.tone = 0
                  /\ ~box'.buzzerDemo
             ELSE /\ box'.buzzerDemo = box.buzzerDemo
                  /\ ~ev'.cut
                  /\ box.currentBuzzerPattern = BUZZER_LOOP
                        => box'.currentBuzzerPattern = BUZZER_LOOP]_vars

\* A Loop demo has just been ended by the pass made 5000 after it began,
\* while its tone was on
C32_Witness ==
    /\ rev = "latest"
    /\ ev.op = "pass" /\ ev.cut
    /\ box.sinceTrigger = BUZZER_DEMO_DURATION
    /\ box.currentBuzzerPattern = BUZZER_OFF
    /\ ~box.buzzerDemo
    /\ box.buzzerState /\ box.tone = 0
\* C33: the breathing value is always within 0 .. 250, the direction is
\* downward whenever the value is 250 or more and upward whenever it is 5 or
\* less, every frame moves the value by 2 in the direction it had, and the
\* frame writes the one value, scaled by the brightness and inverted, to all
\* three channels
C33_Breathing ==
    /\ [](/\ box.breathValue \in 0 .. 250
          /\ box.breathDir \in {1, 0 - 1}
          /\ box.breathValue >= 250 => box.breathDir = 0 - 1
          /\ box.breathValue <= 5 => box.breathDir = 1
          /\ (ev.op = "anim" /\ ev.edge = "frame")
                => LET out == 255 - (box.breathValue
                                       * box.rgb_brightness_percentage) \div 100
                   IN  box.rgbOut = <<out, out, out>>)
    /\ [][(ev'.op = "anim" /\ ev'.edge = "frame")
             => box'.breathValue = box.breathValue + 2 * box.breathDir]_vars

\* The frame that reaches the upper bound and turns the ramp around
C33_Witness ==
    /\ ev.op = "anim" /\ ev.edge = "frame"
    /\ box.currentRGBMode = RGB_BREATHING
    /\ box.breathValue = 250 /\ box.breathDir = 0 - 1
    /\ box.rgb_brightness_percentage = 55
    /\ box.rgbOut = <<118, 118, 118>>
\* C34: a short-press event handled while Editing (the adjust operation of
\* the current item) changes neither a preset in effect nor the store
C34_AdjustIsTransient ==
    [][(ShortEventStep /\ box.inSubMenu /\ box'.inSubMenu)
          => /\ \A key \in PresetKeys : Preset(box', key) = Preset(box, key)
             /\ box'.prefs = box.prefs]_vars

\* A new device (empty store): one long press entered the first item, one
\* short press adjusted it, nothing was confirmed, and the store already
\* holds the adjusted active RGB preset
C34_Witness ==
    /\ ev.op = "menu" /\ box.boots = 0
    /\ box.inSubMenu /\ box.menuIndex = 0
    /\ longPressCount = 1 /\ box.lastLongPressCount = 1
    /\ shortPressCount = 1 /\ box.lastShortPressCount = 1
    /\ DOMAIN box.prefs = {"active_rgb"}
    /\ box.prefs["active_rgb"] = box.activeRGBSetting
    /\ box.activeRGBSetting # RGB_RAINBOW
\* C35: after every pass of loop() that leaves the direction Stopped the
\* enable pin is LOW
C35_StoppedIsOff ==
    (ev.op = "loop" /\ Direction(box) = STOPPED) => box.EN1 = LOW

\* Revision "latest": the motor ran in reverse with the enable pin HIGH, the
\* limit switch was reached, and the pass that decided to stop did not
\* call updateMotorPWM: the pins still drive the motor in reverse
C35_Witness ==
    /\ rev = "latest"
    /\ ev.op = "loop" /\ ~ev.pwm /\ box.recomp = 1
    /\ box.limit_pressed = HIGH /\ box.switch_forward = LOW
    /\ Direction(box) = STOPPED /\ ~box.motorShouldRun
    /\ box.EN1 = HIGH /\ box.IN1 = LOW /\ box.IN2 = HIGH
\* C36: the press counters never decrease; after every pass of loop() the
\* counters last observed by the menu equal them; a pass counts at most one
\* press, and the menu acts once on it in that pass: on a short press as
\* C22 describes, on a long press by toggling Editing at the same item, and
\* with no press counted the selection, the Editing flag and the presets are
\* as before (from the main screen when the call of part_000 timed out)
C36_EveryPressOnce ==
    /\ [](ev.op = "pass" => /\ box.lastShortPressCount = shortPressCount
                            /\ box.lastLongPressCount = longPressCount)
    /\ [][/\ shortPressCount' >= shortPressCount
          /\ longPressCount' >= longPressCount
          /\ ev'.op = "pass" =>
               LET ds == shortPressCount' - shortPressCount
                   dl == longPressCount' - longPressCount
                   index   == IF ev'.arg THEN 0 ELSE box.menuIndex
                   editing == IF ev'.arg THEN FALSE ELSE box.inSubMenu
               IN  /\ ds + dl <= 1
                   /\ ds = 1 => ShortEventFrom(index, editing)
                   /\ dl = 1 => /\ box'.menuIndex = index
                                /\ box'.inSubMenu = ~editing
                   /\ ds + dl = 0 =>
                         /\ box'.menuIndex = index
                         /\ box'.inSubMenu = editing
                         /\ \A key \in PresetKeys :
                               Preset(box', key) = Preset(box, key)]_vars

\* A long press has entered the first item and a short press has adjusted
\* it once; the pass has just handled the short press
C36_Witness ==
    /\ ev.op = "pass" /\ ev.edge = "short"
    /\ shortPressCount = 1 /\ longPressCount = 1
    /\ box.lastShortPressCount = 1 /\ box.lastLongPressCount = 1
    /\ box.inSubMenu /\ box.menuIndex = 0
    /\ box.activeRGBSetting = (RGB_RAINBOW + 1) % RGB_MODE_COUNT
\* C37: a pass of updateBuzzerAlarm that takes the demo timeout (the demo
\* flag was set and is cleared) does not end a pattern started by a claim
\* transition; here these are the Loop patterns, which are never demoed
C37_TimeoutSparesClaims ==
    [][(ev'.op = "pass" /\ box.buzzerDemo /\ ~box'.buzzerDemo)
          => box.currentBuzzerPattern # BUZZER_LOOP]_vars

\* Revision "latest": a claim transition triggered the Loop pattern 300 ago,
\* its first tone began 250 after the trigger, and the pass has ended it
\* with the timeout of a demo begun 5000 ago
C37_Witness ==
    /\ rev = "latest"
    /\ ev.op = "pass"
    /\ box.sinceTrigger = BUZZER_INTERVAL + SosStep
    /\ box.sinceBuzzerDemoStart = BUZZER_DEMO_DURATION
    /\ box.currentBuzzerPattern = BUZZER_OFF
    /\ box.buzzerState /\ ~box.buzzerDemo
\* C38: whenever no write of the claim slot is under way and the register
\* names a box, the switch position that box sampled last is on
C38_ClaimHolderIsOn ==
    \A b \in Boxes :
        (Quiet /\ cloud = b) => boxes[b].switch_forward = HIGH

\* Both boxes claimed at once and each received the other's claim; then
\* TREVOR's switch went off.  TREVOR took itself for inactive and wrote
\* nothing: the register still names TREVOR, whose switch is off
C38_Witness ==
    /\ Quiet
    /\ cloud = TREVOR
    /\ boxes[TREVOR].pinSwitch = LOW
    /\ boxes[TREVOR].switch_forward = LOW
    /\ boxes[TREVOR].active_box = MICHAEL
    /\ boxes[MICHAEL].active_box = TREVOR
    /\ boxes[MICHAEL].switch_forward = HIGH
C40_NoClaimAtStartup ==
    /\ [](box.pinSwitch = HIGH /\ box.active_box # box.name)
    /\ [][ev'.op = "switch"
             => /\ box'.active_box = box.active_box
                /\ box'.currentRGBMode = box.currentRGBMode
                /\ box'.trig = <<>>]_vars

\* Revision "latest" was started with the switch on: the first call of
\* handleSwitchDetection has taken the level for an on edge, claimed, shown
\* the active preset and triggered the active buzzer pattern
C40_Witness ==
    /\ rev = "latest"
    /\ ev.op = "switch" /\ ev.edge = "on"
    /\ box.pinSwitch = HIGH /\ box.switch_forward = HIGH
    /\ box.active_box = box.name
    /\ box.currentRGBMode = box.activeRGBSetting
    /\ box.trig = <<box.activeBuzzerSetting>>
====
